---- MODULE Spec2Model ----
(***************************************************************************)
(* Smart-meeting orchestrator of internal/meeting (service.go and          *)
(* moderator.go, both held in src/internal/embed/embed.go): the serial     *)
(* expert loop with its retry wrapper, the interrupt cache meetingStates   *)
(* and the resume / cancel protocol.                                       *)
(*                                                                         *)
(* Time is counted in units of five minutes, the greatest common unit of   *)
(* MeetingTimeout (5 min) and MeetingStateTTL (10 min).  Durations below   *)
(* that unit (AgentTimeout, the retry delays) never advance the clock: an  *)
(* expired turn deadline is an outcome the environment may produce at any  *)
(* attempt.  The retry delays are counted in seconds, apart from the clock. *)
(*                                                                         *)
(* A text is the sequence of its pieces (the deltas it was streamed in):   *)
(* concatenation is \o and the empty string is << >>.                      *)
(***************************************************************************)
EXTENDS Integers, Sequences, FiniteSets, TLC

VARIABLES
    meetingStates,  \* Service.meetingStates: map stockCode -> *MeetingState
    calls,          \* one record per caller: the frame of its running call
    now,            \* wall clock (time.Now), in units of five minutes
    started,        \* number of meetings/resumes started so far (history)
    cacheWrites,    \* number of cacheMeetingState calls so far (history)
    gen,            \* one generate sequence of an LLM handle (provider layer)
    parse           \* one call of Moderator.parseDecision: its input and result

vars == <<meetingStates, calls, now, started, cacheWrites, gen, parse>>

----------------------------------------------------------------------------
(* Program constants *)

MeetingTimeout == 1
MeetingStateTTL == 2
MaxAgentRetries == 2
\* in seconds
RetryBaseDelay == 2
RetryMaxDelay == 15

(* Bounds of the model *)

MaxTime == 3
MaxSelected == 2
MaxMeetings == 2
MaxCalls == 3
MaxPlanned == 3
MaxChunks == 3

Callers == {"c1", "c2"}
Subjects == {"s1", "s2"}
StockCodes == Subjects \cup {""}

\* req.AllAgents: the pool of experts offered to the planner
AllAgents == <<"bull", "bear">>
\* an id the planner may return that is not in the pool
UnknownID == "nobody"

----------------------------------------------------------------------------
(* Errors.  An error is the chain of its messages, outermost first, so     *)
(* that errors.Is walks the chain and err.Error() holds every message.     *)

NoErr == <<>>
DeadlineExceeded == <<"context deadline exceeded">>
Canceled == <<"context canceled">>
ErrNetwork == <<"connection reset">>
ErrConfig == <<"invalid config">>
ErrNotFound == <<"model not found">>
ErrMeetingTimeout == <<"meeting timeout, partial results returned">>
ErrModeratorTimeout == <<"moderator timeout">>
ErrNoAIConfig == <<"no AI config">>
ErrNoAgents == <<"no agents available">>
ErrNoState == <<"no resumable meeting state">>
ErrCreateModel == <<"create model error">>
ErrAnalyze == <<"moderator analyze error">>
ErrAnalyzeTimeout == <<"moderator analyze timed out">>
ErrExtractJSON == <<"cannot extract JSON from the response">>
ErrNoneSelected == <<"moderator selected no expert">>
ErrCreateSession == <<"create session error">>
ErrEOF == <<"EOF">>
ErrUnmarshal == <<"JSON decode failed">>
ErrTooLong == <<"bufio.Scanner: token too long">>
ErrStreamRead == <<"stream read error">>
ErrSSERead == <<"SSE stream read error">>
ErrRequest == <<"request conversion error">>

ErrorsIs(err, target) == \E k \in 1..Len(err) : err[k] = target[1]

\* strings.Contains(err.Error(), sub) for the two substrings the code tests
MsgContains(err, sub) ==
    \E k \in 1..Len(err) :
        \/ sub = "config" /\ err[k] \in {"invalid config"}
        \/ sub = "not found" /\ err[k] \in {"model not found"}

\* fault: a deadline is retried like a network error
isRetryableErrorButCanceled(err) ==
    IF err = NoErr THEN FALSE
    ELSE IF ErrorsIs(err, Canceled) THEN FALSE
    ELSE IF MsgContains(err, "config") \/ MsgContains(err, "not found") THEN FALSE
    ELSE TRUE

isRetryableError(err) ==
    IF err = NoErr THEN FALSE
    ELSE IF ErrorsIs(err, DeadlineExceeded) \/ ErrorsIs(err, Canceled) THEN FALSE
    ELSE IF MsgContains(err, "config") \/ MsgContains(err, "not found") THEN FALSE
    ELSE TRUE

\* fmt.Errorf("retry %d times still failing: %w", maxRetries, lastErr)
RetriesExhausted(lastErr) == <<"retries exhausted">> \o lastErr

\* What retryRun does with the result of one invocation of fn
\* (attempt 0 is the first call, attempt k the k-th retry).
retryRun(attempt, err) ==
    IF err = NoErr THEN "ok"
    ELSE IF ~isRetryableError(err) THEN "fail"
    ELSE IF attempt < MaxAgentRetries THEN "wait"
    ELSE "exhausted"

\* fault: the exponent counts from the attempt, not from the retry
RetryDelayDoubled(i) ==
    LET d == RetryBaseDelay * 2^i
    IN IF d > RetryMaxDelay THEN RetryMaxDelay ELSE d

\* delay := RetryBaseDelay * 2^(i-1), capped at RetryMaxDelay (retry i >= 1)
RetryDelay(i) ==
    LET d == RetryBaseDelay * 2^(i - 1)
    IN IF d > RetryMaxDelay THEN RetryMaxDelay ELSE d

\* the errors one expert turn (runSingleAgentWithHistory) may end with
TurnErrors == {ErrNetwork, DeadlineExceeded}
\* the same with cancellation, configuration errors and a wrapped deadline
AllTurnErrors ==
    TurnErrors \cup {Canceled, ErrConfig, ErrNotFound,
                     ErrCreateSession \o DeadlineExceeded,
                     ErrCreateSession \o ErrNetwork}

----------------------------------------------------------------------------
(* Records *)

ChatResponse(id, content, round, msgType, err) ==
    [AgentID |-> id, Content |-> content, Round |-> round,
     MsgType |-> msgType, Error |-> err, MeetingMode |-> "smart"]

DiscussionEntry(id, content) ==
    [Round |-> 1, AgentID |-> id, Content |-> content]

\* A progress event as the observer receives it.  index is the position of
\* the expert in the selected list (-1 for the moderator).
ProgressEvent(type, id, index, detail, content) ==
    [type |-> type, agent |-> id, index |-> index, detail |-> detail,
     content |-> content]

\* Entries of the observation log that are not progress events: a response
\* handed to respCallback, a write of the interrupt cache, an expert
\* skipped because its LLM handle could not be built.
Observed(type, id, index) ==
    [type |-> type, agent |-> id, index |-> index, detail |-> NoErr,
     content |-> <<>>]

\* the response resp as respCallback received it
Handed(resp, index) ==
    [type |-> "response", agent |-> resp.AgentID, index |-> index,
     detail |-> resp.Error, content |-> resp.Content]

\* One part of an event of the agent's run: a text delta of a partial
\* event ("partial"), the text of the final aggregated event ("final"), a
\* thought, a function call, a function response.
Part(kind, text) == [kind |-> kind, text |-> text]

\* What the moderator's LLM call gives back: an error, or a text that holds
\* a JSON object or none, with the ids the object selects.
LLMOutput(err, json, selected) ==
    [err |-> err, json |-> json, selected |-> selected]

\* genai.Part: a text, a thought text, or a function call (call is empty
\* or holds one genai.FunctionCall)
GenaiPart(text, thought, call) == [Text |-> text, Thought |-> thought, FunctionCall |-> call]

FunctionCall(id, name, args) == [ID |-> id, Name |-> name, Args |-> args]

\* One call of yield: a model.LLMResponse with its parts, or an error.
Yielded(parts, partial, turnComplete, err) ==
    [Parts |-> parts, Partial |-> partial, TurnComplete |-> turnComplete, err |-> err]

\* The frame of a generate sequence: the locals of processStream and of
\* processResponsesStream, what was read from the stream so far (seen), the
\* calls of yield so far (yields), whether yield has returned false
\* (stopped), and how many reads and calls of yield came after that.
IdleGen ==
    [pc |-> "idle", dialect |-> "", seen |-> <<>>,
     yields |-> <<>>, stopped |-> FALSE, late |-> 0, readsLate |-> 0,
     textContent |-> <<>>, reasoningContent |-> <<>>, toolCallsMap |-> <<>>,
     toolCallOrder |-> <<>>, currentEventType |-> "", end |-> NoErr,
     streaming |-> FALSE]

\* Nothing parsed yet.
IdleParse == [pc |-> "idle", d |-> <<>>, pre |-> <<>>, post |-> <<>>,
              content |-> <<>>, err |-> NoErr, decision |-> <<>>]

NoState ==
    [SelectedAgents |-> <<>>, History |-> <<>>, Responses |-> <<>>,
     FailedIndex |-> 0, MemoryContext |-> "", StockMemory |-> FALSE,
     CreatedAt |-> 0, sid |-> 0, arr |-> 0, cap |-> 0]

\* The frame of a call: its locals, the events and responses its callbacks
\* received (log), what it returned (responses, err).  decision is
\* decision.Selected; stockMemory tells whether the stock memory was loaded;
\* lastErr, delay and waited are retryRun's lastErr, its current delay and
\* the delays it has waited through in this turn; summaryErr is the error
\* of Summarize; savedMemory tells whether the memory round was handed to
\* the background writer.  responses is the slice as the call reads it, cap
\* the capacity of its backing array, arr the identity of that array once a
\* cached MeetingState holds a slice of it (0 before: nobody else can reach
\* the array).  previousContext is the context block the turn function of
\* the current expert was built with.
IdleCall ==
    [pc |-> "idle", kind |-> "none", stockCode |-> "", selectedAgents |-> <<>>,
     memoryContext |-> "", state |-> NoState, i |-> 0, attempt |-> 0,
     history |-> <<>>, responses |-> <<>>, log |-> <<>>, deadline |-> 0,
     err |-> NoErr, failErr |-> NoErr,
     decision |-> <<>>, stockMemory |-> FALSE, lastErr |-> NoErr,
     delay |-> 0, waited |-> 0, summaryErr |-> NoErr, savedMemory |-> FALSE,
     arr |-> 0, cap |-> 0, tasks |-> <<>>, previousContext |-> <<>>]

----------------------------------------------------------------------------
(* Helpers *)

\* fault: the selected experts in the order of the pool
filterAgentsPoolOrder(all, ids) ==
    LET Selected(id) == \E k \in 1..Len(ids) : ids[k] = id
    IN SelectSeq(all, Selected)

RECURSIVE filterAgentsOrdered(_, _)
filterAgentsOrdered(all, ids) ==
    IF ids = <<>> THEN <<>>
    ELSE LET rest == filterAgentsOrdered(all, Tail(ids))
         IN IF \E k \in 1..Len(all) : all[k] = Head(ids)
            THEN <<Head(ids)>> \o rest
            ELSE rest

\* fault: selectedAgents[i:], the failed expert counted among the remaining
RemainingIDsFromFailed(selectedAgents, i) ==
    SubSeq(selectedAgents, i + 1, Len(selectedAgents))

\* ids of selectedAgents[i+1:] (i is a 0-based index)
RemainingIDs(selectedAgents, i) ==
    SubSeq(selectedAgents, i + 2, Len(selectedAgents))

\* fault: >= in place of >, a state expires one instant early
ExpiredAtTTL(state, t) == t - state.CreatedAt >= MeetingStateTTL

\* time.Since(state.CreatedAt) > MeetingStateTTL
Expired(state, t) == t - state.CreatedAt > MeetingStateTTL

\* <-meetingCtx.Done() is ready: the deadline of context.WithTimeout passed
CtxDone(r) == now >= r.deadline

\* delete(s.meetingStates, stockCode)
MapDelete(m, k) == [x \in (DOMAIN m) \ {k} |-> m[x]]
\* s.meetingStates[stockCode] = state
MapSet(m, k, v) == [x \in (DOMAIN m) \cup {k} |-> IF x = k THEN v ELSE m[x]]

Emit(r, e) == [r EXCEPT !.log = Append(@, e)]

\* return responses, err
Return(r, err) == [r EXCEPT !.pc = "done", !.err = err]

\* the capacity append gives the array it allocates when the slice is full
NewCap(cap) == IF cap = 0 THEN 1 ELSE 2 * cap

\* responses = append(responses, resp): written in place while the backing
\* array has room, else copied to a new array nobody else holds
AppendResponse(r, resp) ==
    IF Len(r.responses) < r.cap
    THEN [r EXCEPT !.responses = Append(@, resp)]
    ELSE [r EXCEPT !.responses = Append(@, resp), !.cap = NewCap(@), !.arr = 0]

\* the slice view after the cell behind its n first cells was written, when
\* the slice is on the written array and reaches that cell
Overwritten(view, onArray, n, cell) ==
    IF onArray /\ Len(view) > n THEN [view EXCEPT ![n + 1] = cell] ELSE view

\* the textual marker some servers embed for a tool call
VendorMarker == "<tool_call>"
IsVisible(piece) == piece # VendorMarker
\* openai.FilterVendorToolCallMarkers: the markers are removed from the text
FilterVendorToolCallMarkers(text) == SelectSeq(text, IsVisible)

\* fault: an empty selection is accepted
parseDecisionAnyList(out) ==
    IF ~out.json THEN [err |-> ErrExtractJSON, Selected |-> <<>>]
    ELSE [err |-> NoErr, Selected |-> out.selected]

\* Moderator.parseDecision: no JSON to extract or to decode, nobody selected
parseDecision(out) ==
    IF ~out.json THEN [err |-> ErrExtractJSON, Selected |-> <<>>]
    ELSE IF out.selected = <<>> THEN [err |-> ErrNoneSelected, Selected |-> <<>>]
    ELSE [err |-> NoErr, Selected |-> out.selected]

\* Moderator.Analyze: one call of generate, then parseDecision
Analyze(out) ==
    IF out.err # NoErr THEN [err |-> ErrAnalyze \o out.err, Selected |-> <<>>]
    ELSE parseDecision(out)

\* decision.Selected as the planner may return it: up to MaxSelected
\* distinct ids, known or not
DecisionsUpTo(n) ==
    LET ids == {AllAgents[k] : k \in 1..Len(AllAgents)} \cup {UnknownID}
    IN {d \in UNION {[1..m -> ids] : m \in 1..n} :
            \A j, k \in 1..Len(d) : j # k => d[j] # d[k]}

Decisions == DecisionsUpTo(MaxSelected)

\* the decisions that name experts of the pool only, and the one that names
\* nobody of the pool
PoolDecisions ==
    {d \in Decisions : \A k \in 1..Len(d) : d[k] # UnknownID} \cup {<<UnknownID>>}

----------------------------------------------------------------------------
Init ==
    /\ meetingStates = <<>>
    /\ calls = [c \in Callers |-> IdleCall]
    /\ now = 0
    /\ started = 0
    /\ cacheWrites = 0
    /\ gen = IdleGen
    /\ parse = IdleParse

Free(c) == calls[c].pc = "idle"

ModeratorEvent(type, detail) == ProgressEvent(type, "moderator", -1, detail, <<>>)

\* fault: the pool is looked at after the moderator was announced
RunSmartMeetingWithCallbackLate(c, stockCode, haveConfig, pool, modelOk, stockMemory, memoryContext) ==
    /\ Free(c)
    /\ started' = started + 1
    /\ LET r == [IdleCall EXCEPT !.kind = "run", !.stockCode = stockCode]
           r1 == Emit(r, ModeratorEvent("agent_start", <<"analyze">>))
       IN calls' = [calls EXCEPT ![c] =
            IF ~haveConfig THEN Return(r, ErrNoAIConfig)
            ELSE IF ~modelOk THEN Return(r, ErrCreateModel)
            ELSE IF pool = <<>> THEN Return(r1, ErrNoAgents)
            ELSE [r1 EXCEPT !.pc = "planning",
                            !.deadline = now + MeetingTimeout,
                            !.stockMemory = stockMemory,
                            !.memoryContext = memoryContext]]
    /\ UNCHANGED <<meetingStates, now, cacheWrites, gen, parse>>

\* RunSmartMeetingWithCallback up to the moderator's agent_start
RunSmartMeetingWithCallback(c, stockCode, haveConfig, pool, modelOk, stockMemory, memoryContext) ==
    /\ Free(c)
    /\ started' = started + 1
    /\ LET r == [IdleCall EXCEPT !.kind = "run", !.stockCode = stockCode]
       IN calls' = [calls EXCEPT ![c] =
            IF ~haveConfig THEN Return(r, ErrNoAIConfig)
            ELSE IF pool = <<>> THEN Return(r, ErrNoAgents)
            ELSE IF ~modelOk THEN Return(r, ErrCreateModel)
            ELSE Emit([r EXCEPT !.pc = "planning",
                                !.deadline = now + MeetingTimeout,
                                !.stockMemory = stockMemory,
                                !.memoryContext = memoryContext],
                      ModeratorEvent("agent_start", <<"analyze">>))]
    /\ UNCHANGED <<meetingStates, now, cacheWrites, gen, parse>>

\* moderator.Analyze failed
PlanFailed(c, err) ==
    /\ calls[c].pc = "planning"
    /\ calls' = [calls EXCEPT ![c] =
            Return([Emit(@, ModeratorEvent("agent_done", NoErr))
                        EXCEPT !.responses = <<>>],
                   IF ErrorsIs(err, DeadlineExceeded)
                   THEN ErrAnalyzeTimeout \o ErrModeratorTimeout
                   ELSE ErrAnalyze \o err)]
    /\ UNCHANGED <<meetingStates, now, started, cacheWrites, gen, parse>>

\* moderator.Analyze returned a decision: opening, selection of the experts
PlanDone(c, selected) ==
    /\ calls[c].pc = "planning"
    /\ LET opening == ChatResponse("moderator", <<"opening">>, 0, "opening", NoErr)
           r1 == Emit([calls[c] EXCEPT !.decision = selected],
                      ModeratorEvent("agent_done", NoErr))
           r2 == Emit(AppendResponse(r1, opening), Handed(opening, -1))
           sel == filterAgentsOrdered(AllAgents, selected)
       IN calls' = [calls EXCEPT ![c] =
            IF sel = <<>> THEN Return(r2, NoErr)
            ELSE [r2 EXCEPT !.selectedAgents = sel, !.pc = "loop", !.i = 0]]
    /\ UNCHANGED <<meetingStates, now, started, cacheWrites, gen, parse>>

----------------------------------------------------------------------------
(* One expert turn, as both RunSmartMeetingWithCallback and ContinueMeeting *)
(* run it.  id is the expert, r.i its 0-based index in the selected list.   *)

\* CreateModel failed for the expert: log.Error and continue
TurnSkipped(r, id) ==
    [Emit(r, Observed("skipped", id, r.i)) EXCEPT !.i = @ + 1]

\* fault: the entries are listed without the name of their speaker
buildPreviousContextUnlabelled(history) ==
    IF history = <<>> THEN <<>>
    ELSE <<<<"previous speakers">>>>
            \o [k \in 1..Len(history) |-> <<"", history[k].Content>>]

\* buildPreviousContext: nothing for an empty transcript, else the heading
\* and one labelled line for each entry, in the order of the transcript
\* (the text as the sequence of its pieces)
buildPreviousContext(history) ==
    IF history = <<>> THEN <<>>
    ELSE <<<<"previous speakers">>>>
            \o [k \in 1..Len(history) |-> <<history[k].AgentID, history[k].Content>>]

\* previousContext = memoryContext + "\n" + previousContext when there is a
\* memory context
ContextBlock(memoryContext, history) ==
    IF memoryContext # ""
    THEN <<<<memoryContext>>, <<"\n">>>> \o buildPreviousContext(history)
    ELSE buildPreviousContext(history)

\* the turn function is built with the context block
WithContext(r, memoryContext) ==
    [r EXCEPT !.previousContext = ContextBlock(memoryContext, r.history)]

\* agent_start, then retryRun's first invocation of the turn
TurnStarted(r, id) ==
    [Emit(r, ProgressEvent("agent_start", id, r.i, NoErr, <<>>))
        EXCEPT !.pc = "attempt", !.attempt = 0]

\* err == nil: agent_done, the opinion, the transcript entry
TurnSucceeded(r, id, content) ==
    LET resp == ChatResponse(id, content, 1, "opinion", NoErr)
        r1 == Emit(r, ProgressEvent("agent_done", id, r.i, NoErr, <<>>))
        r2 == Emit(AppendResponse(r1, resp),
                   Handed(resp, r.i))
    IN [r2 EXCEPT !.history = Append(@, DiscussionEntry(id, content)),
                  !.i = @ + 1, !.pc = "loop", !.attempt = 0,
                  !.lastErr = NoErr, !.delay = 0, !.waited = 0]

\* fault: agent_done is emitted before agent_error
TurnFailedDoneFirst(r, id, err) ==
    LET resp == ChatResponse(id, <<>>, 1, "opinion", err)
        r1 == Emit(r, ProgressEvent("agent_done", id, r.i, NoErr, <<>>))
        r2 == Emit(r1, ProgressEvent("agent_error", id, r.i, err, <<>>))
        r3 == Emit(AppendResponse(r2, resp),
                   Handed(resp, r.i))
    IN [r3 EXCEPT !.pc = "failed", !.failErr = err, !.attempt = 0,
                  !.lastErr = NoErr, !.delay = 0, !.waited = 0]

\* err != nil: agent_error, agent_done, the error-bearing response
TurnFailed(r, id, err) ==
    LET resp == ChatResponse(id, <<>>, 1, "opinion", err)
        r1 == Emit(r, ProgressEvent("agent_error", id, r.i, err, <<>>))
        r2 == Emit(r1, ProgressEvent("agent_done", id, r.i, NoErr, <<>>))
        r3 == Emit(AppendResponse(r2, resp),
                   Handed(resp, r.i))
    IN [r3 EXCEPT !.failErr = err, !.pc = "failed", !.attempt = 0,
                  !.lastErr = NoErr, !.delay = 0, !.waited = 0]

\* runSingleAgentWithHistory, the loop over the events of the run: the
\* progress events of the parts, in order
RECURSIVE StreamParts(_, _, _)
StreamParts(r, id, parts) ==
    IF parts = <<>> THEN r
    ELSE LET p == Head(parts)
             e == IF p.kind = "call"
                  THEN <<ProgressEvent("tool_call", id, r.i, NoErr, <<>>)>>
                  ELSE IF p.kind = "result"
                  THEN <<ProgressEvent("tool_result", id, r.i, NoErr, <<>>)>>
                  ELSE IF p.kind = "partial" /\ p.text # <<>>
                  THEN <<ProgressEvent("streaming", id, r.i, NoErr, p.text)>>
                  ELSE <<>>
         IN StreamParts([r EXCEPT !.log = @ \o e], id, Tail(parts))

\* content += part.Text for the partial events
RECURSIVE PartialText(_)
PartialText(parts) ==
    IF parts = <<>> THEN <<>>
    ELSE (IF Head(parts).kind = "partial" THEN Head(parts).text ELSE <<>>)
            \o PartialText(Tail(parts))

\* what one run of the agent returns
TurnContent(err, parts) ==
    IF err = NoErr THEN FilterVendorToolCallMarkers(PartialText(parts)) ELSE <<>>

\* fault: every failed invocation is reported with an agent_error
AfterAttemptNoisy(r, id, err, content) ==
    LET what == retryRun(r.attempt, err)
    IN IF what = "ok" THEN TurnSucceeded(r, id, content)
       ELSE IF what = "fail" THEN TurnFailed(r, id, err)
       ELSE IF what = "wait"
            THEN [Emit(r, ProgressEvent("agent_error", id, r.i, err, <<>>))
                    EXCEPT !.pc = "backoff", !.lastErr = err,
                           !.delay = RetryDelay(r.attempt + 1)]
       ELSE TurnFailed(r, id, RetriesExhausted(err))

\* One invocation of the turn function under retryRun ended with err
\* (NoErr and content on success).
AfterAttempt(r, id, err, content) ==
    LET what == retryRun(r.attempt, err)
    IN IF what = "ok" THEN TurnSucceeded(r, id, content)
       ELSE IF what = "fail" THEN TurnFailed(r, id, err)
       ELSE IF what = "wait"
            THEN [r EXCEPT !.pc = "backoff", !.lastErr = err,
                           !.delay = RetryDelay(r.attempt + 1)]
       ELSE TurnFailed(r, id, RetriesExhausted(err))

\* fault: the wait does not listen to ctx.Done()
AfterBackoffDeaf(r, id) ==
    [r EXCEPT !.attempt = @ + 1, !.waited = @ + r.delay, !.pc = "attempt"]

\* retryRun's select between ctx.Done() and time.After(delay)
AfterBackoff(r, id) ==
    IF CtxDone(r) THEN TurnFailed(r, id, DeadlineExceeded)
    ELSE [r EXCEPT !.attempt = @ + 1, !.waited = @ + r.delay, !.pc = "attempt"]

InterruptedEvent(selectedAgents, r) ==
    ProgressEvent("meeting_interrupted", selectedAgents[r.i + 1], r.i, r.failErr,
                  RemainingIDs(selectedAgents, r.i))

----------------------------------------------------------------------------
(* What a step of caller c that leaves its frame as r2 does to the slices   *)
(* of the others: when it appended in place into an array that a cached     *)
(* state holds, every slice on that array that reaches the written cell     *)
(* reads the new element.                                                   *)

WroteInPlace(c, r2) ==
    /\ Len(r2.responses) = Len(calls[c].responses) + 1
    /\ calls[c].arr # 0
    /\ r2.arr = calls[c].arr

Stored(c, r2) ==
    LET n == Len(calls[c].responses)
        w == WroteInPlace(c, r2)
        cell == r2.responses[n + 1]
    IN [d \in Callers |->
            IF d = c THEN r2
            ELSE IF ~w THEN calls[d]
            ELSE [calls[d] EXCEPT
                    !.responses =
                        Overwritten(@, calls[d].arr = r2.arr, n, cell),
                    !.state.Responses =
                        Overwritten(@, calls[d].state.arr = r2.arr, n, cell)]]

StoredStates(c, r2) ==
    LET n == Len(calls[c].responses)
        w == WroteInPlace(c, r2)
        cell == r2.responses[n + 1]
    IN [s \in DOMAIN meetingStates |->
            IF ~w THEN meetingStates[s]
            ELSE [meetingStates[s] EXCEPT
                    !.Responses =
                        Overwritten(@, meetingStates[s].arr = r2.arr, n, cell)]]

----------------------------------------------------------------------------
(* RunSmartMeetingWithCallback: the serial loop *)

IsRun(c, pc) == calls[c].kind = "run" /\ calls[c].pc = pc

\* for-range exhausted
RunLoopEnd(c) ==
    /\ IsRun(c, "loop")
    /\ calls[c].i >= Len(calls[c].selectedAgents)
    /\ calls' = [calls EXCEPT ![c].pc = "postloop"]
    /\ UNCHANGED <<meetingStates, now, started, cacheWrites, gen, parse>>

\* top of an iteration: the meeting deadline, the expert's LLM handle
RunLoopTop(c, modelOk) ==
    /\ IsRun(c, "loop")
    /\ calls[c].i < Len(calls[c].selectedAgents)
    /\ LET r == calls[c]
           id == r.selectedAgents[r.i + 1]
       IN calls' = [calls EXCEPT ![c] =
            IF CtxDone(r) THEN Return(r, ErrMeetingTimeout)
            ELSE IF ~modelOk THEN TurnSkipped(r, id)
            ELSE WithContext(TurnStarted(r, id), r.memoryContext)]
    /\ UNCHANGED <<meetingStates, now, started, cacheWrites, gen, parse>>

RunAttempt(c, err, parts) ==
    /\ IsRun(c, "attempt")
    /\ LET r == calls[c]
           id == r.selectedAgents[r.i + 1]
           r2 == AfterAttempt(StreamParts(r, id, parts), id, err,
                              TurnContent(err, parts))
       IN /\ calls' = Stored(c, r2)
          /\ meetingStates' = StoredStates(c, r2)
    /\ UNCHANGED <<now, started, cacheWrites, gen, parse>>

RunBackoff(c) ==
    /\ IsRun(c, "backoff")
    /\ LET r == calls[c]
           r2 == AfterBackoff(r, r.selectedAgents[r.i + 1])
       IN /\ calls' = Stored(c, r2)
          /\ meetingStates' = StoredStates(c, r2)
    /\ UNCHANGED <<now, started, cacheWrites, gen, parse>>

\* the MeetingState RunSmartMeetingWithCallback caches
RunMeetingState(r, t, sid) ==
    [SelectedAgents |-> r.selectedAgents, History |-> r.history,
     Responses |-> r.responses, FailedIndex |-> r.i,
     MemoryContext |-> r.memoryContext, StockMemory |-> r.stockMemory,
     CreatedAt |-> t, sid |-> sid,
     arr |-> IF r.arr # 0 THEN r.arr ELSE sid, cap |-> r.cap]

\* after the failed response: cache, meeting_interrupted, break
RunInterrupt(c) ==
    /\ IsRun(c, "failed")
    /\ LET r == calls[c]
           st == RunMeetingState(r, now, cacheWrites + 1)
       IN IF r.stockCode # ""
          THEN /\ meetingStates' = MapSet(meetingStates, r.stockCode, st)
               /\ cacheWrites' = cacheWrites + 1
               /\ calls' = [calls EXCEPT ![c] =
                    [Emit(Emit(r, Observed("cache", r.selectedAgents[r.i + 1],
                                           st.FailedIndex)),
                          InterruptedEvent(r.selectedAgents, r))
                        EXCEPT !.pc = "postloop", !.arr = st.arr]]
          ELSE /\ calls' = [calls EXCEPT ![c].pc = "postloop"]
               /\ UNCHANGED <<meetingStates, cacheWrites, gen, parse>>
    /\ UNCHANGED <<now, started, gen, parse>>

\* the check after the loop: a cached state for the subject means interrupted
RunPostLoop(c) ==
    /\ IsRun(c, "postloop")
    /\ LET r == calls[c]
       IN calls' = [calls EXCEPT ![c] =
            IF r.stockCode # "" /\ r.stockCode \in DOMAIN meetingStates
            THEN Return(r, NoErr)
            ELSE [Emit(r, ModeratorEvent("agent_start", <<"summarize">>))
                    EXCEPT !.pc = "summarizing"]]
    /\ UNCHANGED <<meetingStates, now, started, cacheWrites, gen, parse>>

\* Moderator.Summarize: one call of generate, its text filtered
Summarize(err, text) ==
    IF err # NoErr THEN <<>> ELSE FilterVendorToolCallMarkers(text)

\* fault: an error of the summary is returned to the caller
AfterSummarizeFatal(r, err, summary, stockMemory) ==
    LET r1 == Emit(r, ModeratorEvent("agent_done", NoErr))
        resp == ChatResponse("moderator", summary, 2, "summary", NoErr)
        r2 == IF summary # <<>>
              THEN Emit(AppendResponse(r1, resp),
                        Handed(resp, -1))
              ELSE r1
    IN IF err # NoErr THEN Return([r1 EXCEPT !.summaryErr = err], err)
       ELSE Return([r2 EXCEPT !.savedMemory = (stockMemory /\ summary # <<>>)],
                   NoErr)

\* moderator.Summarize returned (summary, err): agent_done, then on error
\* the responses as they are; else the summary, if any, and the memory
\* round handed to the background writer.  Shared with runMeetingSummary.
AfterSummarize(r, err, summary, stockMemory) ==
    LET r1 == Emit(r, ModeratorEvent("agent_done", NoErr))
        resp == ChatResponse("moderator", summary, 2, "summary", NoErr)
        r2 == IF summary # <<>>
              THEN Emit(AppendResponse(r1, resp),
                        Handed(resp, -1))
              ELSE r1
    IN IF err # NoErr THEN Return([r1 EXCEPT !.summaryErr = err], NoErr)
       ELSE Return([r2 EXCEPT !.savedMemory = (stockMemory /\ summary # <<>>)],
                   NoErr)

RunSummarize(c, err, text) ==
    /\ IsRun(c, "summarizing")
    /\ LET r2 == AfterSummarize(calls[c], err, Summarize(err, text),
                                calls[c].stockMemory)
       IN /\ calls' = Stored(c, r2)
          /\ meetingStates' = StoredStates(c, r2)
    /\ UNCHANGED <<now, started, cacheWrites, gen, parse>>

----------------------------------------------------------------------------
(* The interrupt cache: cancel, query, resume *)

\* fault: the whole map is reset
CancelDeleteAll(m, stockCode) == <<>>

\* delete(s.meetingStates, stockCode) under the write lock
CancelDelete(m, stockCode) == MapDelete(m, stockCode)

CancelInterruptedMeeting(stockCode) ==
    /\ meetingStates' = CancelDelete(meetingStates, stockCode)
    /\ UNCHANGED <<calls, now, started, cacheWrites, gen, parse>>

HasInterruptedMeeting(stockCode) ==
    IF stockCode \notin DOMAIN meetingStates THEN FALSE
    ELSE IF Expired(meetingStates[stockCode], now) THEN FALSE
    ELSE TRUE

\* fault: the state is read but left in the map
TakeStateKeep(m, stockCode) == m

\* the critical section of ContinueMeeting: read the state and delete it
TakeState(m, stockCode) ==
    IF stockCode \in DOMAIN m THEN MapDelete(m, stockCode) ELSE m

\* fault: the resumed loop starts after the failed expert
StartIndexAfterFailed(state) == state.FailedIndex + 1

\* state.FailedIndex, where the resumed loop starts
StartIndex(state) == state.FailedIndex

\* ContinueMeeting up to the loop
ContinueMeeting(c, stockCode) ==
    /\ Free(c)
    /\ started' = started + 1
    /\ LET ok == stockCode \in DOMAIN meetingStates
           state == IF ok THEN meetingStates[stockCode] ELSE NoState
           r == [IdleCall EXCEPT !.kind = "continue", !.stockCode = stockCode]
       IN /\ meetingStates' = TakeState(meetingStates, stockCode)
          /\ calls' = [calls EXCEPT ![c] =
                IF ~ok \/ Expired(state, now)
                THEN Return([r EXCEPT !.state = state], ErrNoState)
                ELSE [r EXCEPT !.state = state,
                               !.deadline = now + MeetingTimeout,
                               !.responses = state.Responses,
                               !.arr = state.arr, !.cap = state.cap,
                               !.history = state.History,
                               !.i = StartIndex(state),
                               !.pc = "loop"]]
    /\ UNCHANGED <<now, cacheWrites, gen, parse>>

IsContinue(c, pc) == calls[c].kind = "continue" /\ calls[c].pc = pc

ContinueLoopEnd(c) ==
    /\ IsContinue(c, "loop")
    /\ calls[c].i >= Len(calls[c].state.SelectedAgents)
    /\ calls' = [calls EXCEPT ![c].pc = "postloop"]
    /\ UNCHANGED <<meetingStates, now, started, cacheWrites, gen, parse>>

ContinueLoopTop(c, modelOk) ==
    /\ IsContinue(c, "loop")
    /\ calls[c].i < Len(calls[c].state.SelectedAgents)
    /\ LET r == calls[c]
           id == r.state.SelectedAgents[r.i + 1]
       IN calls' = [calls EXCEPT ![c] =
            IF CtxDone(r) THEN Return(r, ErrMeetingTimeout)
            ELSE IF ~modelOk THEN TurnSkipped(r, id)
            ELSE WithContext(TurnStarted(r, id), r.state.MemoryContext)]
    /\ UNCHANGED <<meetingStates, now, started, cacheWrites, gen, parse>>

ContinueAttempt(c, err, parts) ==
    /\ IsContinue(c, "attempt")
    /\ LET r == calls[c]
           id == r.state.SelectedAgents[r.i + 1]
           r2 == AfterAttempt(StreamParts(r, id, parts), id, err,
                              TurnContent(err, parts))
       IN /\ calls' = Stored(c, r2)
          /\ meetingStates' = StoredStates(c, r2)
    /\ UNCHANGED <<now, started, cacheWrites, gen, parse>>

ContinueBackoff(c) ==
    /\ IsContinue(c, "backoff")
    /\ LET r == calls[c]
           r2 == AfterBackoff(r, r.state.SelectedAgents[r.i + 1])
       IN /\ calls' = Stored(c, r2)
          /\ meetingStates' = StoredStates(c, r2)
    /\ UNCHANGED <<now, started, cacheWrites, gen, parse>>

\* fault: the consumed state is cached again as it was, with a new CreatedAt
ContinueMeetingStateStale(r, t, sid) ==
    [r.state EXCEPT !.CreatedAt = t, !.sid = sid]

\* the MeetingState ContinueMeeting caches when an expert fails again
ContinueMeetingState(r, t, sid) ==
    [SelectedAgents |-> r.state.SelectedAgents, History |-> r.history,
     Responses |-> r.responses, FailedIndex |-> r.i,
     MemoryContext |-> r.state.MemoryContext,
     StockMemory |-> r.state.StockMemory, CreatedAt |-> t, sid |-> sid,
     arr |-> IF r.arr # 0 THEN r.arr ELSE sid, cap |-> r.cap]

ContinueInterrupt(c) ==
    /\ IsContinue(c, "failed")
    /\ LET r == calls[c]
           sel == r.state.SelectedAgents
           st == ContinueMeetingState(r, now, cacheWrites + 1)
       IN /\ meetingStates' = MapSet(meetingStates, r.stockCode, st)
          /\ cacheWrites' = cacheWrites + 1
          /\ calls' = [calls EXCEPT ![c] =
                [Emit(Emit(r, Observed("cache", sel[r.i + 1], st.FailedIndex)),
                      InterruptedEvent(sel, r))
                    EXCEPT !.pc = "postloop", !.arr = st.arr]]
    /\ UNCHANGED <<now, started, gen, parse>>

ContinuePostLoop(c) ==
    /\ IsContinue(c, "postloop")
    /\ LET r == calls[c]
       IN calls' = [calls EXCEPT ![c] =
            IF r.stockCode \in DOMAIN meetingStates
            THEN Return(r, NoErr)
            ELSE [Emit(r, ModeratorEvent("agent_start", <<"summarize">>))
                    EXCEPT !.pc = "summarizing"]]
    /\ UNCHANGED <<meetingStates, now, started, cacheWrites, gen, parse>>

runMeetingSummary(c, err, text) ==
    /\ IsContinue(c, "summarizing")
    /\ LET r2 == AfterSummarize(calls[c], err, Summarize(err, text),
                                calls[c].state.StockMemory)
       IN /\ calls' = Stored(c, r2)
          /\ meetingStates' = StoredStates(c, r2)
    /\ UNCHANGED <<now, started, cacheWrites, gen, parse>>

----------------------------------------------------------------------------
\* The instants at which some timer changes what it reads: the deadline of
\* a running call, the last instant at which a cached state is valid and
\* the first at which it is expired.
Thresholds ==
    {calls[c].deadline : c \in {x \in Callers : calls[x].pc \notin {"idle", "done"}}}
    \cup {meetingStates[s].CreatedAt + MeetingStateTTL + d :
                s \in DOMAIN meetingStates, d \in {0, 1}}

\* Time passes until the next such instant.
Tick ==
    /\ \E t \in Thresholds : t > now
    /\ now' = CHOOSE t \in Thresholds : t > now /\ \A u \in Thresholds : u > now => t <= u
    /\ now' <= MaxTime
    /\ UNCHANGED <<meetingStates, calls, started, cacheWrites, gen, parse>>

\* The caller has taken the returned values: the frame is gone.
Exit(c) ==
    /\ calls[c].pc = "done"
    /\ calls' = [calls EXCEPT ![c] = IdleCall]
    /\ UNCHANGED <<meetingStates, now, started, cacheWrites, gen, parse>>

\* The environment of the calls: what the planner's LLM call may give
\* back (Plans), whether the stock memory loads and the context built from
\* it (Memories), whether the collaborators succeed (OK: request validity,
\* model factory), the errors a run of an expert may end with (TurnErrors),
\* the parts a run yields when it succeeds (Runs) and before it fails
\* (FailedRuns), the errors and texts of the summarizer.
Memory(stockMemory, context) == [stockMemory |-> stockMemory, context |-> context]
Memories == {Memory(FALSE, ""), Memory(TRUE, ""), Memory(TRUE, "memory")}

PlansOver(DS) ==
    {LLMOutput(e, FALSE, <<>>) : e \in {DeadlineExceeded, ErrNetwork}}
    \cup {LLMOutput(NoErr, FALSE, <<>>)}
    \cup {LLMOutput(NoErr, TRUE, d) : d \in DS \cup {<<>>}}

Summaries == {<<>>, <<"summary">>}

Everything ==
    [Plans |-> PlansOver(PoolDecisions),
     Memories |-> {Memory(FALSE, ""), Memory(TRUE, "memory")}, OK |-> BOOLEAN,
     TurnErrors |-> TurnErrors,
     Runs |-> {<<Part("partial", <<"text">>)>>}, FailedRuns |-> {<<>>},
     SummaryErrors |-> {DeadlineExceeded, ErrNetwork}, Summaries |-> Summaries]

\* A one-expert plan or a failed plan, the memory loaded, no collaborator
\* failure outside the expert turns and the moderator.
OneExpert ==
    [Everything EXCEPT
        !.Plans = {LLMOutput(ErrNetwork, FALSE, <<>>),
                   LLMOutput(NoErr, TRUE, <<"bull">>)},
        !.Memories = {Memory(TRUE, "memory")},
        !.OK = {TRUE},
        !.SummaryErrors = {ErrNetwork}]

\* The steps of the callers in CS, for requests on the stock codes SC, in
\* the environment E, with at most N calls started.
Step(CS, SC, E, N) ==
    \/ \E c \in CS, s \in SC, cfg \in E.OK,
          pool \in {IF k THEN AllAgents ELSE <<>> : k \in E.OK},
          ok \in E.OK, m \in E.Memories :
            /\ started < N
            /\ RunSmartMeetingWithCallback(c, s, cfg, pool, ok,
                                           m.stockMemory, m.context)
    \/ \E c \in CS, out \in E.Plans :
            Analyze(out).err # NoErr /\ PlanFailed(c, Analyze(out).err)
    \/ \E c \in CS, out \in E.Plans :
            Analyze(out).err = NoErr /\ PlanDone(c, Analyze(out).Selected)
    \/ \E c \in CS : RunLoopEnd(c)
    \/ \E c \in CS, ok \in E.OK : RunLoopTop(c, ok)
    \/ \E c \in CS, e \in E.TurnErrors, ps \in E.FailedRuns : RunAttempt(c, e, ps)
    \/ \E c \in CS, ps \in E.Runs : RunAttempt(c, NoErr, ps)
    \/ \E c \in CS : RunBackoff(c)
    \/ \E c \in CS : RunInterrupt(c)
    \/ \E c \in CS : RunPostLoop(c)
    \/ \E c \in CS, e \in E.SummaryErrors : RunSummarize(c, e, <<>>)
    \/ \E c \in CS, t \in E.Summaries : RunSummarize(c, NoErr, t)
    \/ \E s \in SC : CancelInterruptedMeeting(s)
    \/ \E c \in CS, s \in SC : started < N /\ ContinueMeeting(c, s)
    \/ \E c \in CS : ContinueLoopEnd(c)
    \/ \E c \in CS, ok \in E.OK : ContinueLoopTop(c, ok)
    \/ \E c \in CS, e \in E.TurnErrors, ps \in E.FailedRuns :
            ContinueAttempt(c, e, ps)
    \/ \E c \in CS, ps \in E.Runs : ContinueAttempt(c, NoErr, ps)
    \/ \E c \in CS : ContinueBackoff(c)
    \/ \E c \in CS : ContinueInterrupt(c)
    \/ \E c \in CS : ContinuePostLoop(c)
    \/ \E c \in CS, e \in E.SummaryErrors : runMeetingSummary(c, e, <<>>)
    \/ \E c \in CS, t \in E.Summaries : runMeetingSummary(c, NoErr, t)
    \/ \E c \in CS : Exit(c)
    \/ Tick

\* One caller at a time, every kind of input.
Next == Step({"c1"}, {"", "s1"}, Everything, MaxMeetings)

Spec == Init /\ [][Next]_vars

\* Two callers at once on one subject.
NextConcurrent == Step(Callers, {"s1"}, OneExpert, MaxCalls)

SpecConcurrent == Init /\ [][NextConcurrent]_vars

\* One caller on two subjects.
NextSubjects == Step({"c1"}, Subjects, OneExpert, MaxCalls)

SpecSubjects == Init /\ [][NextSubjects]_vars

\* One caller, one subject, every kind of error of a run of the expert.
NextRetry ==
    Step({"c1"}, {"s1"}, [OneExpert EXCEPT !.TurnErrors = AllTurnErrors],
         MaxMeetings)

SpecRetry == Init /\ [][NextRetry]_vars

\* One caller, one subject, every selection of up to MaxPlanned ids.
NextPlan ==
    Step({"c1"}, {"s1"},
         [OneExpert EXCEPT !.Plans = PlansOver(DecisionsUpTo(MaxPlanned)),
                           !.Memories = Memories,
                           !.TurnErrors = {ErrNetwork}],
         MaxMeetings)

SpecPlan == Init /\ [][NextPlan]_vars

\* the events of a run of the expert: a thought, a tool call and its
\* result, text deltas with a vendor marker among them, the final
\* aggregated event
ToolRun ==
    <<Part("thought", <<"hm">>), Part("call", <<>>), Part("result", <<>>),
      Part("partial", <<"a">>), Part("partial", <<VendorMarker>>),
      Part("partial", <<"b">>), Part("final", <<"a", "b">>)>>

\* One caller, one subject, runs of the expert that stream text and call
\* tools, some of them failing after the first delta.
NextStream ==
    Step({"c1"}, {"s1"},
         [OneExpert EXCEPT
            !.Plans = @ \cup {LLMOutput(NoErr, TRUE, <<"bull", "bear">>)},
            !.Runs = {<<Part("partial", <<"a">>)>>, ToolRun},
            !.FailedRuns = {<<>>, <<Part("call", <<>>), Part("partial", <<"a">>)>>}],
         MaxMeetings)

SpecStream == Init /\ [][NextStream]_vars

----------------------------------------------------------------------------
(* Direct mode: SendMessage runs the requested experts side by side, one    *)
(* goroutine each, and returns after all of them; RetrySingleAgent runs one *)
(* expert again.                                                            *)

\* a ChatResponse literal of runAgentsParallel and of RetrySingleAgent
DirectResponse(id, content, round, msgType, err) ==
    [ChatResponse(id, content, round, msgType, err) EXCEPT !.MeetingMode = "direct"]

\* ChatResponse{}
ZeroResponse ==
    [AgentID |-> "", Content |-> <<>>, Round |-> 0, MsgType |-> "",
     Error |-> NoErr, MeetingMode |-> ""]

\* the error of the model factory, as SendMessage returns it
ErrFactory == <<"unsupported provider">>

\* one goroutine of runAgentsParallel
Task(pc, attempt) == [pc |-> pc, attempt |-> attempt]

IsDirect(c, pc) == calls[c].kind = "direct" /\ calls[c].pc = pc
IsTask(c, k, pc) ==
    /\ IsDirect(c, "parallel")
    /\ k \in 1..Len(calls[c].tasks)
    /\ calls[c].tasks[k].pc = pc

\* content += part.Text for every text part that is not a thought
RECURSIVE AllText(_)
AllText(parts) ==
    IF parts = <<>> THEN <<>>
    ELSE (IF Head(parts).kind \in {"partial", "final"} THEN Head(parts).text ELSE <<>>)
            \o AllText(Tail(parts))

\* what runSingleAgentWithContext returns
runSingleAgentWithContext(err, parts) ==
    IF err = NoErr THEN FilterVendorToolCallMarkers(AllText(parts)) ELSE <<>>

\* wg.Wait() returns
Joined(r) == \A k \in 1..Len(r.tasks) : r.tasks[k].pc = "done"

SendMessage(c, agents, modelOk) ==
    /\ Free(c)
    /\ started' = started + 1
    /\ LET r == [IdleCall EXCEPT !.kind = "direct", !.selectedAgents = agents]
       IN calls' = [calls EXCEPT ![c] =
            IF ~modelOk THEN Return(r, ErrFactory)
            ELSE [r EXCEPT !.pc = "parallel",
                           !.deadline = now + MeetingTimeout,
                           !.tasks = [k \in 1..Len(agents) |-> Task("start", 0)]]]
    /\ UNCHANGED <<meetingStates, now, cacheWrites, gen, parse>>

\* the goroutine of the k-th requested expert builds its model handle
TaskStart(c, k, modelOk) ==
    /\ IsTask(c, k, "start")
    /\ calls' = [calls EXCEPT ![c].tasks[k] =
            IF modelOk THEN Task("attempt", 0) ELSE Task("done", 0)]
    /\ UNCHANGED <<meetingStates, now, started, cacheWrites, gen, parse>>

\* mu.Lock(); responses = append(responses, resp); the goroutine ends
TaskDone(r, k, resp) ==
    [r EXCEPT !.responses = Append(@, resp), !.tasks[k] = Task("done", 0)]

TaskAttempt(c, k, err, parts) ==
    /\ IsTask(c, k, "attempt")
    /\ LET r == calls[c]
           id == r.selectedAgents[k]
           what == retryRun(r.tasks[k].attempt, err)
       IN calls' = [calls EXCEPT ![c] =
            IF what = "ok"
            THEN TaskDone(r, k, DirectResponse(id,
                        runSingleAgentWithContext(err, parts), 0, "", NoErr))
            ELSE IF what = "fail"
            THEN TaskDone(r, k, DirectResponse(id, <<>>, 0, "opinion", err))
            ELSE IF what = "wait"
            THEN [r EXCEPT !.tasks[k].pc = "backoff"]
            ELSE TaskDone(r, k, DirectResponse(id, <<>>, 0, "opinion",
                                               RetriesExhausted(err)))]
    /\ UNCHANGED <<meetingStates, now, started, cacheWrites, gen, parse>>

TaskBackoff(c, k) ==
    /\ IsTask(c, k, "backoff")
    /\ LET r == calls[c]
           id == r.selectedAgents[k]
       IN calls' = [calls EXCEPT ![c] =
            IF CtxDone(r)
            THEN TaskDone(r, k, DirectResponse(id, <<>>, 0, "opinion",
                                               DeadlineExceeded))
            ELSE [r EXCEPT !.tasks[k] = Task("attempt", @.attempt + 1)]]
    /\ UNCHANGED <<meetingStates, now, started, cacheWrites, gen, parse>>

\* wg.Wait(); return responses, nil
SendMessageReturn(c) ==
    /\ IsDirect(c, "parallel")
    /\ Joined(calls[c])
    /\ calls' = [calls EXCEPT ![c] = Return(@, NoErr)]
    /\ UNCHANGED <<meetingStates, now, started, cacheWrites, gen, parse>>

IsRetry(c, pc) == calls[c].kind = "retry" /\ calls[c].pc = pc

\* fault: the manual retry takes the interrupted meeting out of the cache
RetrySingleAgentTaking(c, stockCode, id, modelOk) ==
    /\ Free(c)
    /\ started' = started + 1
    /\ meetingStates' = TakeState(meetingStates, stockCode)
    /\ LET r == [IdleCall EXCEPT !.kind = "retry", !.stockCode = stockCode,
                                 !.selectedAgents = <<id>>]
       IN calls' = [calls EXCEPT ![c] =
            IF ~modelOk
            THEN Return([r EXCEPT !.responses = <<ZeroResponse>>],
                        ErrCreateModel \o ErrFactory)
            ELSE Emit([r EXCEPT !.pc = "attempt"],
                      ProgressEvent("agent_start", id, 0, <<"role">>, <<>>))]
    /\ UNCHANGED <<now, cacheWrites, gen, parse>>

RetrySingleAgent(c, stockCode, id, modelOk) ==
    /\ Free(c)
    /\ started' = started + 1
    /\ LET r == [IdleCall EXCEPT !.kind = "retry", !.stockCode = stockCode,
                                 !.selectedAgents = <<id>>]
       IN calls' = [calls EXCEPT ![c] =
            IF ~modelOk
            THEN Return([r EXCEPT !.responses = <<ZeroResponse>>],
                        ErrCreateModel \o ErrFactory)
            ELSE Emit([r EXCEPT !.pc = "attempt"],
                      ProgressEvent("agent_start", id, 0, <<"role">>, <<>>))]
    /\ UNCHANGED <<meetingStates, now, cacheWrites, gen, parse>>

\* what RetrySingleAgent does with the result of retryRun
RetryReturn(r, id, content, err) ==
    LET r1 == Emit(r, ProgressEvent("agent_done", id, 0, NoErr, <<>>))
    IN IF err # NoErr
       THEN Return([r1 EXCEPT !.responses =
                        <<DirectResponse(id, <<>>, 0, "opinion", err)>>], err)
       ELSE Return([r1 EXCEPT !.responses =
                        <<DirectResponse(id, content, 1, "opinion", NoErr)>>], NoErr)

RetryAttempt(c, err, parts) ==
    /\ IsRetry(c, "attempt")
    /\ LET r == calls[c]
           id == r.selectedAgents[1]
           r1 == StreamParts(r, id, parts)
           what == retryRun(r.attempt, err)
       IN calls' = [calls EXCEPT ![c] =
            IF what = "ok" THEN RetryReturn(r1, id, TurnContent(err, parts), NoErr)
            ELSE IF what = "fail" THEN RetryReturn(r1, id, <<>>, err)
            ELSE IF what = "wait" THEN [r1 EXCEPT !.pc = "backoff"]
            ELSE RetryReturn(r1, id, <<>>, RetriesExhausted(err))]
    /\ UNCHANGED <<meetingStates, now, started, cacheWrites, gen, parse>>

\* the wait of retryRun under the caller's context, which is not cancelled
RetryBackoff(c) ==
    /\ IsRetry(c, "backoff")
    /\ calls' = [calls EXCEPT ![c] = [@ EXCEPT !.attempt = @ + 1, !.pc = "attempt"]]
    /\ UNCHANGED <<meetingStates, now, started, cacheWrites, gen, parse>>

\* the lists of experts a direct request names
Requests == {<<>>, <<"bull">>, <<"bull", "bear">>}

\* what a non-streaming run of an expert yields: its final event
DirectRuns ==
    {<<Part("final", <<"a">>)>>,
     <<Part("thought", <<"hm">>), Part("final", <<"a", VendorMarker>>)>>}

\* the errors a run of an expert may end with in a direct request
DirectErrors == TurnErrors \cup {ErrConfig}

\* The steps of the direct-mode calls of the callers in CS.
StepDirect(CS, N) ==
    \/ \E c \in CS, agents \in Requests, ok \in BOOLEAN :
            started < N /\ SendMessage(c, agents, ok)
    \/ \E c \in CS, k \in 1..MaxSelected, ok \in BOOLEAN : TaskStart(c, k, ok)
    \/ \E c \in CS, k \in 1..MaxSelected, e \in DirectErrors :
            TaskAttempt(c, k, e, <<>>)
    \/ \E c \in CS, k \in 1..MaxSelected, ps \in DirectRuns :
            TaskAttempt(c, k, NoErr, ps)
    \/ \E c \in CS, k \in 1..MaxSelected : TaskBackoff(c, k)
    \/ \E c \in CS : SendMessageReturn(c)
    \/ \E c \in CS, id \in {"bull", "bear"}, ok \in BOOLEAN :
            started < N /\ RetrySingleAgent(c, "s1", id, ok)
    \/ \E c \in CS, e \in DirectErrors : RetryAttempt(c, e, <<>>)
    \/ \E c \in CS, ps \in {<<Part("partial", <<"a">>)>>, ToolRun} :
            RetryAttempt(c, NoErr, ps)
    \/ \E c \in CS : RetryBackoff(c)

\* One caller, one subject: smart meetings and their resumes, direct
\* requests and single-expert retries.
NextDirect ==
    \/ Step({"c1"}, {"s1"}, OneExpert, MaxMeetings)
    \/ StepDirect({"c1"}, MaxMeetings)

SpecDirect == Init /\ [][NextDirect]_vars

\* the steps of a manual retry of one expert by the callers in CS
StepRetry(CS, N) ==
    \/ \E c \in CS, id \in {"bull", "bear"}, ok \in BOOLEAN :
            started < N /\ RetrySingleAgent(c, "s1", id, ok)
    \/ \E c \in CS, e \in DirectErrors : RetryAttempt(c, e, <<>>)
    \/ \E c \in CS, ps \in {<<Part("partial", <<"a">>)>>, ToolRun} :
            RetryAttempt(c, NoErr, ps)
    \/ \E c \in CS : RetryBackoff(c)

\* Smart meetings and their resumes by one caller, manual retries of an
\* expert by another, on one subject.
NextManualRetry ==
    \/ Step({"c1"}, {"s1"}, OneExpert, MaxCalls)
    \/ StepRetry({"c2"}, MaxCalls)

SpecManualRetry == Init /\ [][NextManualRetry]_vars

----------------------------------------------------------------------------
(* The provider layer: one generate sequence of an LLM handle, in the chat  *)
(* completion dialect (OpenAIModel) or in the responses dialect             *)
(* (ResponsesModel).  A text is a sequence of pieces; usage counters and    *)
(* the finish reason pass through and are left out.                         *)

IsVendorMarker(piece) == piece = VendorMarker

\* parseVendorToolCalls: the markers of the text lifted into calls, and the
\* text without them
parseVendorToolCalls(text) ==
    [vendorCalls |-> SelectSeq(text, IsVendorMarker),
     cleanedText |-> SelectSeq(text, IsVisible)]

\* parseJSONArgs: the object the fragments spell when put together, the
\* empty object when they spell none
parseJSONArgs(args) ==
    IF args \in {<<"{k:1}">>, <<"{k:", "1}">>} THEN <<"k", "1">> ELSE <<>>

\* toolCallBuilder, responsesToolCallBuilder
Builder(itemID, callID, name, args) ==
    [itemID |-> itemID, callID |-> callID, name |-> name, args |-> args]

\* a chunk of the chat completion stream: Choices[0].Delta
Chunk(choices, reasoning, content, toolCalls) ==
    [choices |-> choices, reasoning |-> reasoning, content |-> content,
     toolCalls |-> toolCalls]

\* an element of Delta.ToolCalls (index -1: no index given)
ToolCallDelta(index, id, name, args) ==
    [index |-> index, id |-> id, name |-> name, args |-> args]

\* a line of the SSE body: "event: <type>", "data: <json>", anything else
Line(kind, type, data) == [kind |-> kind, type |-> type, data |-> data]

\* the JSON of a data line as its handler decodes it (ok: it parses)
Payload(ok, delta, itemID, item) ==
    [ok |-> ok, delta |-> delta, item_id |-> itemID, item |-> item]

Item(type, id, callID, name, arguments) ==
    [type |-> type, id |-> id, call_id |-> callID, name |-> name,
     arguments |-> arguments]

NoItem == Item("", "", "", "", <<>>)

\* yield(resp, err): the consumer takes the element and says whether it
\* goes on; a call after it said no panics (range over a function)
Yield(g, el, keep) ==
    IF g.stopped THEN [g EXCEPT !.late = @ + 1, !.pc = "panic"]
    ELSE [g EXCEPT !.yields = Append(@, el), !.stopped = ~keep]

\* a partial response with one part
PartialResponse(text, thought) ==
    Yielded(<<GenaiPart(text, thought, <<>>)>>, TRUE, FALSE, NoErr)

\* return
Finish(g) == IF g.pc = "panic" THEN g ELSE [g EXCEPT !.pc = "done"]

\* the loop over choice.Delta.ToolCalls
RECURSIVE ApplyToolCalls(_, _)
ApplyToolCalls(m, tcs) ==
    IF tcs = <<>> THEN m
    ELSE LET tc == Head(tcs)
             idx == IF tc.index < 0 THEN 0 ELSE tc.index
             b == IF idx \in DOMAIN m THEN m[idx] ELSE Builder("", "", "", <<>>)
             b2 == Builder("", IF tc.id # "" THEN tc.id ELSE b.callID,
                           IF tc.name # "" THEN tc.name ELSE b.name,
                           b.args \o tc.args)
         IN ApplyToolCalls(MapSet(m, idx, b2), Tail(tcs))

RECURSIVE sortedKeys(_)
sortedKeys(K) ==
    IF K = {} THEN <<>>
    ELSE LET k == CHOOSE x \in K : \A y \in K : x <= y
         IN <<k>> \o sortedKeys(K \ {k})

\* the parts of the aggregated text: the cleaned text, then the lifted calls
TextParts(textContent) ==
    IF textContent = <<>> THEN <<>>
    ELSE LET v == parseVendorToolCalls(textContent)
         IN (IF v.cleanedText # <<>>
             THEN <<GenaiPart(v.cleanedText, FALSE, <<>>)>> ELSE <<>>)
            \o [i \in 1..Len(v.vendorCalls) |->
                    GenaiPart(<<>>, FALSE,
                              <<FunctionCall(<<"vendor_call", i - 1>>, "vendor", <<>>)>>)]

\* the function-call parts of the builders with the keys ks, in that order
CallParts(m, ks) ==
    [i \in 1..Len(ks) |->
        GenaiPart(<<>>, FALSE,
                  <<FunctionCall(m[ks[i]].callID, m[ks[i]].name,
                                 parseJSONArgs(m[ks[i]].args))>>)]

\* processStream with the thought part appended after the text instead of
\* put in front of it
ChatFinalThoughtLast(g) ==
    Yielded(TextParts(g.textContent)
            \o (IF g.reasoningContent # <<>>
                THEN <<GenaiPart(g.reasoningContent, TRUE, <<>>)>> ELSE <<>>)
            \o CallParts(g.toolCallsMap, sortedKeys(DOMAIN g.toolCallsMap)),
            FALSE, TRUE, NoErr)

\* the final aggregated response of processStream
ChatFinal(g) ==
    Yielded((IF g.reasoningContent # <<>>
             THEN <<GenaiPart(g.reasoningContent, TRUE, <<>>)>> ELSE <<>>)
            \o TextParts(g.textContent)
            \o CallParts(g.toolCallsMap, sortedKeys(DOMAIN g.toolCallsMap)),
            FALSE, TRUE, NoErr)

\* the final aggregated response of processResponsesStream
ResponsesFinal(g) ==
    Yielded(TextParts(g.textContent) \o CallParts(g.toolCallsMap, g.toolCallOrder),
            FALSE, TRUE, NoErr)

\* GenerateContent: generate yields its one element; generateStream yields
\* the error of the request, or goes on to the stream
GenerateContent(dialect, stream, err, keep) ==
    /\ gen.pc = "idle"
    /\ LET g == [IdleGen EXCEPT !.dialect = dialect, !.streaming = stream]
       IN gen' =
            IF err # NoErr
            THEN Finish(Yield(g, Yielded(<<>>, FALSE, FALSE, err), keep))
            ELSE IF ~stream
            THEN Finish(Yield(g, Yielded(<<GenaiPart(<<"a">>, FALSE, <<>>)>>,
                                          FALSE, TRUE, NoErr), keep))
            ELSE [g EXCEPT !.pc = "stream"]
    /\ UNCHANGED <<meetingStates, calls, now, started, cacheWrites, parse>>

IsStream(dialect) == gen.pc = "stream" /\ gen.dialect = dialect

\* one round of processStream's loop on a chunk
processChunk(g, chunk, keepR, keepC) ==
    IF ~chunk.choices THEN g
    ELSE LET g1 == IF chunk.reasoning # <<>>
                   THEN Yield([g EXCEPT !.reasoningContent = @ \o chunk.reasoning],
                              PartialResponse(chunk.reasoning, TRUE), keepR)
                   ELSE g
         IN IF g1.stopped THEN Finish(g1)
            ELSE LET g2 == IF chunk.content # <<>>
                           THEN Yield([g1 EXCEPT !.textContent = @ \o chunk.content],
                                      PartialResponse(chunk.content, FALSE), keepC)
                           ELSE g1
                 IN IF g2.stopped THEN Finish(g2)
                    ELSE [g2 EXCEPT !.toolCallsMap =
                                ApplyToolCalls(@, chunk.toolCalls)]

\* stream.Recv() gives a chunk
Recv(chunk, keepR, keepC) ==
    /\ IsStream("chat")
    /\ Len(gen.seen) < MaxChunks
    /\ gen' = processChunk([gen EXCEPT !.seen = Append(@, chunk)], chunk, keepR, keepC)
    /\ UNCHANGED <<meetingStates, calls, now, started, cacheWrites, parse>>

\* fault: after the error the aggregated response is yielded as well
processStreamEndBoth(g, err, keep) ==
    IF ErrorsIs(err, Canceled) THEN Finish(g)
    ELSE IF ~ErrorsIs(err, ErrEOF)
    THEN Finish(Yield(Yield(g, Yielded(<<>>, FALSE, FALSE, ErrStreamRead \o err), keep),
                      ChatFinal(g), keep))
    ELSE Finish(Yield(g, ChatFinal(g), keep))

\* what processStream does when stream.Recv() fails with err
processStreamEnd(g, err, keep) ==
    IF ErrorsIs(err, Canceled) THEN Finish(g)
    ELSE IF ~ErrorsIs(err, ErrEOF)
    THEN Finish(Yield(g, Yielded(<<>>, FALSE, FALSE, ErrStreamRead \o err), keep))
    ELSE Finish(Yield(g, ChatFinal(g), keep))

RecvEnd(err, keep) ==
    /\ IsStream("chat")
    /\ gen' = processStreamEnd([gen EXCEPT !.end = err], err, keep)
    /\ UNCHANGED <<meetingStates, calls, now, started, cacheWrites, parse>>

\* fault: the delta is forwarded before it is decoded
handleTextDeltaUndecoded(g, d, keep) ==
    Yield([g EXCEPT !.textContent = @ \o d.delta],
          PartialResponse(d.delta, FALSE), keep)

handleTextDelta(g, d, keep) ==
    IF ~d.ok THEN g
    ELSE Yield([g EXCEPT !.textContent = @ \o d.delta],
               PartialResponse(d.delta, FALSE), keep)

handleFuncArgsDelta(g, d) ==
    IF ~d.ok THEN g
    ELSE IF d.item_id \in DOMAIN g.toolCallsMap
    THEN [g EXCEPT !.toolCallsMap[d.item_id].args = @ \o d.delta]
    ELSE g

handleOutputItemAdded(g, d) ==
    IF ~d.ok \/ d.item.type # "function_call" THEN g
    ELSE [g EXCEPT !.toolCallsMap =
                        MapSet(@, d.item.id,
                               Builder(d.item.id, d.item.call_id, d.item.name, <<>>)),
                   !.toolCallOrder = Append(@, d.item.id)]

handleOutputItemDone(g, d) ==
    IF ~d.ok \/ d.item.type # "function_call" THEN g
    ELSE IF d.item.id \in DOMAIN g.toolCallsMap
    THEN [g EXCEPT !.toolCallsMap[d.item.id] =
            Builder(@.itemID, d.item.call_id, d.item.name,
                    IF d.item.arguments # <<>> THEN d.item.arguments ELSE @.args)]
    ELSE [g EXCEPT !.toolCallsMap =
                        MapSet(@, d.item.id,
                               Builder(d.item.id, d.item.call_id, d.item.name,
                                       d.item.arguments)),
                   !.toolCallOrder = Append(@, d.item.id)]

\* one round of processResponsesStream's loop on a line
ScanLine(g, line, keep) ==
    LET g0 == [g EXCEPT !.readsLate = IF g.stopped THEN @ + 1 ELSE @]
    IN IF line.kind = "event" THEN [g0 EXCEPT !.currentEventType = line.type]
       ELSE IF line.kind # "data" \/ line.data = <<>> THEN g0
       ELSE LET d == line.data[1]
                t == g0.currentEventType
                h == IF t = "response.output_text.delta" THEN handleTextDelta(g0, d, keep)
                     ELSE IF t = "response.function_call_arguments.delta"
                     THEN handleFuncArgsDelta(g0, d)
                     ELSE IF t = "response.output_item.added"
                     THEN handleOutputItemAdded(g0, d)
                     ELSE IF t = "response.output_item.done"
                     THEN handleOutputItemDone(g0, d)
                     ELSE g0
            IN IF h.pc = "panic" THEN h ELSE [h EXCEPT !.currentEventType = ""]

RECURSIVE ScanLines(_, _, _)
ScanLines(g, lines, keep) ==
    IF lines = <<>> \/ g.pc = "panic" THEN g
    ELSE ScanLines(ScanLine(g, Head(lines), keep), Tail(lines), keep)

\* scanner.Scan() gives the lines of one event
Scan(lines, keep) ==
    /\ IsStream("responses")
    /\ Len(gen.seen) < MaxChunks
    /\ gen' = ScanLines([gen EXCEPT !.seen = Append(@, lines)], lines, keep)
    /\ UNCHANGED <<meetingStates, calls, now, started, cacheWrites, parse>>

\* what processResponsesStream does when scanner.Scan() gives no more
\* lines and scanner.Err() is err
processResponsesStreamEnd(g, err, keep) ==
    LET g0 == [g EXCEPT !.readsLate = IF g.stopped THEN @ + 1 ELSE @]
    IN IF err # NoErr
       THEN Finish(Yield(g0, Yielded(<<>>, FALSE, FALSE, ErrSSERead \o err), keep))
       ELSE Finish(Yield(g0, ResponsesFinal(g0), keep))

ScanEnd(err, keep) ==
    /\ IsStream("responses")
    /\ gen' = processResponsesStreamEnd([gen EXCEPT !.end = err], err, keep)
    /\ UNCHANGED <<meetingStates, calls, now, started, cacheWrites, parse>>

\* An event of the responses stream: its event line and its data line.
SSE(type, payload) == <<Line("event", type, <<>>), Line("data", "", <<payload>>)>>

TextDelta(delta) == Payload(TRUE, delta, "", NoItem)
Malformed == Payload(FALSE, <<"x">>, "", NoItem)

\* chunks that carry text, reasoning and one tool call
TextChunks ==
    {Chunk(FALSE, <<>>, <<>>, <<>>),
     Chunk(TRUE, <<"r">>, <<>>, <<>>),
     Chunk(TRUE, <<>>, <<"a">>, <<>>),
     Chunk(TRUE, <<>>, <<VendorMarker>>, <<>>),
     Chunk(TRUE, <<"r">>, <<"b">>, <<>>),
     Chunk(TRUE, <<>>, <<>>, <<ToolCallDelta(0, "c1", "f", <<"{k:1}">>)>>)}

\* events that carry text, well formed or not, a data line with no event
\* line before it, an empty data line, and one tool call
TextEvents ==
    {SSE("response.output_text.delta", TextDelta(<<"a">>)),
     SSE("response.output_text.delta", TextDelta(<<"b">>)),
     SSE("response.output_text.delta", TextDelta(<<VendorMarker>>)),
     SSE("response.output_text.delta", TextDelta(<<>>)),
     SSE("response.output_text.delta", Malformed),
     <<Line("data", "", <<TextDelta(<<"b">>)>>)>>,
     <<Line("event", "response.output_text.delta", <<>>), Line("data", "", <<>>),
       Line("other", "", <<>>)>>,
     SSE("response.output_item.done",
         Payload(TRUE, <<>>, "", Item("function_call", "i1", "c1", "f", <<"{k:1}">>)))}

\* how a stream may end: its end, a cancelled context, a failed read, a
\* line longer than the scanner's buffer
RecvErrors == {ErrEOF, Canceled, ErrNetwork, DeadlineExceeded}
ScanErrors == {NoErr, Canceled, ErrNetwork, ErrTooLong}

\* The steps of a generate sequence over the chunks CH and the events EV.
StepGen(CH, EV) ==
    \/ \E d \in {"chat", "responses"}, stream \in BOOLEAN,
          e \in {NoErr, ErrRequest}, keep \in BOOLEAN :
            GenerateContent(d, stream, e, keep)
    \/ \E ch \in CH, keepR \in BOOLEAN, keepC \in BOOLEAN : Recv(ch, keepR, keepC)
    \/ \E e \in RecvErrors, keep \in BOOLEAN : RecvEnd(e, keep)
    \/ \E ev \in EV, keep \in BOOLEAN : Scan(ev, keep)
    \/ \E e \in ScanErrors, keep \in BOOLEAN : ScanEnd(e, keep)

\* Streams of text.
NextText == StepGen(TextChunks, TextEvents)

SpecText == Init /\ [][NextText]_vars

ItemEvent(type, item) == SSE(type, Payload(TRUE, <<>>, "", item))
ArgsDelta(itemID, delta) ==
    SSE("response.function_call_arguments.delta", Payload(TRUE, delta, itemID, NoItem))

\* chunks that carry tool calls in two index slots, reasoning, and a text
\* with a vendor marker
CallChunks ==
    {Chunk(TRUE, <<>>, <<>>, <<ToolCallDelta(0, "c1", "f", <<"{k:">>)>>),
     Chunk(TRUE, <<>>, <<>>, <<ToolCallDelta(0, "", "", <<"1}">>)>>),
     Chunk(TRUE, <<>>, <<>>, <<ToolCallDelta(1, "c2", "g", <<"{k:1}">>)>>),
     Chunk(TRUE, <<>>, <<>>, <<ToolCallDelta(-1, "c1", "f", <<>>)>>),
     Chunk(TRUE, <<"r">>, <<"a", VendorMarker>>, <<>>)}

\* events of two function_call items, announced, filled and finished, of
\* an item that is no function call, and a text with a vendor marker
CallEvents ==
    {ItemEvent("response.output_item.added", Item("function_call", "i1", "c1", "f", <<>>)),
     ItemEvent("response.output_item.added", Item("function_call", "i2", "c2", "g", <<>>)),
     ItemEvent("response.output_item.added", Item("message", "i3", "", "", <<>>)),
     ArgsDelta("i1", <<"{k:1}">>),
     ItemEvent("response.output_item.done", Item("function_call", "i1", "c1", "f", <<>>)),
     ItemEvent("response.output_item.done", Item("function_call", "i1", "c1", "f2", <<"{k:1}">>)),
     ItemEvent("response.output_item.done", Item("function_call", "i2", "c2", "g", <<"{}">>)),
     SSE("response.output_text.delta", TextDelta(<<"a", VendorMarker>>))}

\* Streams of tool calls.
NextCalls == StepGen(CallChunks, CallEvents)

SpecCalls == Init /\ [][NextCalls]_vars

----------------------------------------------------------------------------
(* The planner's parser.  A text is a sequence of characters; the          *)
(* "selected" field of a decision is one piece of it ("selected:[...]"),    *)
(* the three backquotes of a code fence are one piece ("fence"), and so is  *)
(* the word json.                                                           *)

\* ModeratorDecision: the selected ids and the opening
ModeratorDecision(selected, opening) == [Selected |-> selected, Opening |-> opening]

\* the "selected" field as it is written in JSON
SelectedJSON ==
    (<<>> :> "selected:[]") @@ (<<"bull">> :> "selected:[bull]")
        @@ (<<"bull", "bear">> :> "selected:[bull,bear]")

IsSpace(ch) == ch \in {" ", "\n"}

\* strings.TrimSpace
RECURSIVE TrimSpace(_)
TrimSpace(s) ==
    IF s = <<>> THEN s
    ELSE IF IsSpace(s[1]) THEN TrimSpace(Tail(s))
    ELSE IF IsSpace(s[Len(s)]) THEN TrimSpace(SubSeq(s, 1, Len(s) - 1))
    ELSE s

\* strings.Index(s[from:], sub) for a one-piece sub, as a position of s
\* (0: not found)
IndexFrom(s, from, ch) ==
    LET ks == {k \in from..Len(s) : s[k] = ch}
    IN IF ks = {} THEN 0 ELSE CHOOSE k \in ks : \A j \in ks : k <= j

\* a string literal's characters in JSON: quote and backslash escaped
RECURSIVE Escape(_)
Escape(text) ==
    IF text = <<>> THEN <<>>
    ELSE (IF text[1] \in {"\"", "\\"} THEN <<"\\", text[1]>> ELSE <<text[1]>>)
         \o Escape(Tail(text))

\* json.Marshal of a decision
Marshal(d) ==
    <<"{", SelectedJSON[d.Selected], "\"">> \o Escape(d.Opening) \o <<"\"", "}">>

\* the inside of a string literal is well formed
RECURSIVE IsEscaped(_)
IsEscaped(s) ==
    IF s = <<>> THEN TRUE
    ELSE IF s[1] = "\\"
    THEN Len(s) >= 2 /\ s[2] \in {"\"", "\\"} /\ IsEscaped(SubSeq(s, 3, Len(s)))
    ELSE s[1] # "\"" /\ IsEscaped(Tail(s))

RECURSIVE Unescape(_)
Unescape(s) ==
    IF s = <<>> THEN <<>>
    ELSE IF s[1] = "\\" THEN <<s[2]>> \o Unescape(SubSeq(s, 3, Len(s)))
    ELSE <<s[1]>> \o Unescape(Tail(s))

\* json.Unmarshal into a ModeratorDecision: an object with an optional
\* "selected" field and an optional string, nothing before or after it
Unmarshal(text) ==
    LET t == TrimSpace(text)
        n == Len(t)
        hasSel == n >= 3 /\ t[2] \in {SelectedJSON[x] : x \in DOMAIN SelectedJSON}
        from == IF hasSel THEN 3 ELSE 2
        selected == IF hasSel
                    THEN CHOOSE x \in DOMAIN SelectedJSON : SelectedJSON[x] = t[2]
                    ELSE <<>>
        rest == SubSeq(t, from, n - 1)
        m == Len(rest)
        isString == m >= 2 /\ rest[1] = "\"" /\ rest[m] = "\""
                        /\ IsEscaped(SubSeq(rest, 2, m - 1))
    IN IF n < 2 \/ t[1] # "{" \/ t[n] # "}" THEN [ok |-> FALSE, d |-> <<>>]
       ELSE IF rest = <<>> THEN [ok |-> TRUE, d |-> <<ModeratorDecision(selected, <<>>)>>]
       ELSE IF isString
       THEN [ok |-> TRUE,
             d |-> <<ModeratorDecision(selected, Unescape(SubSeq(rest, 2, m - 1)))>>]
       ELSE [ok |-> FALSE, d |-> <<>>]

\* the scan of extractJSON from position i: the end of the first
\* brace-balanced object, 0 if the text ends before
RECURSIVE ScanObject(_, _, _, _, _)
ScanObject(s, i, depth, inString, escape) ==
    IF i > Len(s) THEN 0
    ELSE LET c == s[i]
         IN IF escape THEN ScanObject(s, i + 1, depth, inString, FALSE)
            ELSE IF c = "\\" /\ inString THEN ScanObject(s, i + 1, depth, inString, TRUE)
            ELSE IF c = "\"" THEN ScanObject(s, i + 1, depth, ~inString, FALSE)
            ELSE IF inString THEN ScanObject(s, i + 1, depth, inString, FALSE)
            ELSE IF c = "{" THEN ScanObject(s, i + 1, depth + 1, inString, FALSE)
            ELSE IF c = "}"
            THEN (IF depth = 1 THEN i ELSE ScanObject(s, i + 1, depth - 1, inString, FALSE))
            ELSE ScanObject(s, i + 1, depth, inString, FALSE)

\* position of the first fence that json follows at once (0: none)
IndexFenceJSON(s) ==
    LET ks == {k \in 1..(Len(s) - 1) : s[k] = "fence" /\ s[k + 1] = "json"}
    IN IF ks = {} THEN 0 ELSE CHOOSE k \in ks : \A j \in ks : k <= j

\* Moderator.extractJSON, methods 4 and 5
extractJSONScan(content) ==
    LET start == IndexFrom(content, 1, "{")
        end == ScanObject(content, start, 0, FALSE, FALSE)
        ks == {k \in 1..Len(content) : content[k] = "}"}
        last == IF ks = {} THEN 0 ELSE CHOOSE k \in ks : \A j \in ks : j <= k
    IN IF start = 0 THEN <<>>
       ELSE IF end # 0 THEN SubSeq(content, start, end)
       ELSE IF last > start THEN SubSeq(content, start, last)
       ELSE <<>>

\* Moderator.extractJSON, method 3 and on
extractJSONFence(content) ==
    LET idx == IndexFrom(content, 1, "fence")
        newline == IF idx = 0 THEN 0 ELSE IndexFrom(content, idx + 1, "\n")
        start == IF newline # 0 THEN newline + 1 ELSE idx + 1
        end == IF idx = 0 THEN 0 ELSE IndexFrom(content, start, "fence")
        extracted == TrimSpace(SubSeq(content, start, end - 1))
    IN IF idx # 0 /\ end # 0 /\ extracted # <<>> /\ extracted[1] = "{"
       THEN extracted
       ELSE extractJSONScan(content)

\* Moderator.extractJSON
extractJSON(text) ==
    LET content == TrimSpace(text)
        idx == IndexFenceJSON(content)
        end == IF idx = 0 THEN 0 ELSE IndexFrom(content, idx + 2, "fence")
    IN IF content # <<>> /\ content[1] = "{" /\ content[Len(content)] = "}"
       THEN content
       ELSE IF idx # 0 /\ end # 0
       THEN TrimSpace(SubSeq(content, idx + 2, end - 1))
       ELSE extractJSONFence(content)

\* fault: a decision that selects nobody is accepted
parseDecisionContentAnyList(content) ==
    LET jsonStr == extractJSON(TrimSpace(content))
        got == Unmarshal(jsonStr)
    IN IF jsonStr = <<>> THEN [err |-> ErrExtractJSON, decision |-> <<>>]
       ELSE IF ~got.ok THEN [err |-> ErrUnmarshal, decision |-> <<>>]
       ELSE [err |-> NoErr, decision |-> got.d]

\* Moderator.parseDecision on the text of the planner's answer
parseDecisionContent(content) ==
    LET jsonStr == extractJSON(TrimSpace(content))
        got == Unmarshal(jsonStr)
    IN IF jsonStr = <<>> THEN [err |-> ErrExtractJSON, decision |-> <<>>]
       ELSE IF ~got.ok THEN [err |-> ErrUnmarshal, decision |-> <<>>]
       ELSE IF got.d[1].Selected = <<>> THEN [err |-> ErrNoneSelected, decision |-> <<>>]
       ELSE [err |-> NoErr, decision |-> got.d]

\* parseDecision is called on the text pre, obj, post, where obj is the
\* serialization of the decision d when there is one
ParseDecision(d, obj, pre, post) ==
    /\ parse.pc = "idle"
    /\ LET content == pre \o obj \o post
           got == parseDecisionContent(content)
       IN parse' = [pc |-> "done", d |-> d, pre |-> pre, post |-> post,
                    content |-> content, err |-> got.err, decision |-> got.decision]
    /\ UNCHANGED <<meetingStates, calls, now, started, cacheWrites, gen>>

\* the decisions a planner may write
Openings ==
    {<<>>, <<"x">>, <<"}">>, <<"{">>, <<"\"">>, <<"\\">>, <<"x", "\"", "}">>,
     <<"{", "\\", "\"">>}
WrittenDecisions ==
    {ModeratorDecision(s, o) : s \in DOMAIN SelectedJSON, o \in Openings}

\* what may stand around the object: nothing, white space, a json
\* fence, a plain fence with and without a language line, other text, and
\* text that ends with a closing brace
Surroundings ==
    {<<<<>>, <<>>>>, <<<<" ">>, <<"\n">>>>,
     <<<<"x", "fence", "json", "\n">>, <<"\n", "fence">>>>,
     <<<<"fence", "\n">>, <<"fence", "x">>>>,
     <<<<"x", "fence", "x", "\n">>, <<"\n", "fence">>>>,
     <<<<"x", " ">>, <<" ", "x">>>>,
     <<<<>>, <<" ", "x", "}">>>>}

\* The steps of the parser: on a written decision, on an object that is
\* no decision, on a text with no object.
NextParse ==
    \/ \E d \in WrittenDecisions, sur \in Surroundings :
            ParseDecision(<<d>>, Marshal(d), sur[1], sur[2])
    \/ \E obj \in {<<>>, <<"{">>, <<"{", "x", "}">>, <<"{", "}">>}, sur \in Surroundings :
            ParseDecision(<<>>, obj, sur[1], sur[2])

SpecParse == Init /\ [][NextParse]_vars

----------------------------------------------------------------------------
(* Properties.  Each is stated on what an observer of a call can see: the  *)
(* frame of the call (its log of events and responses, its result) and the *)
(* interrupt cache.                                                        *)

\* the selected list a call iterates over
SelectedOf(r) ==
    IF r.kind = "continue" THEN r.state.SelectedAgents ELSE r.selectedAgents

HasEntry(r, type) == \E k \in 1..Len(r.log) : r.log[k].type = type

IsExpertStart(e) == e.type \in {"agent_start", "skipped"} /\ e.index >= 0
IsResponse(e) == e.type = "response"
SummarizeStarted(r) ==
    \E k \in 1..Len(r.log) :
        r.log[k].type = "agent_start" /\ r.log[k].detail = <<"summarize">>

\* the response that the k-th entry of the log (a response entry) handed over
ResponseAt(r, k) ==
    r.responses[Len(r.state.Responses)
                + Cardinality({j \in 1..k : r.log[j].type = "response"})]

\* a resume that found no usable state / one that went on to the loop
Refused(r) == r.kind = "continue" /\ r.pc = "done" /\ r.err = ErrNoState
Proceeded(r) == r.kind = "continue" /\ ~Refused(r)

\* the step of caller c is the entry of a ContinueMeeting call
ResumeEntry(c) == calls[c].pc = "idle" /\ calls'[c].kind = "continue"

----------------------------------------------------------------------------
\* what follows every agent_error in the log of r
FailureSequence(r) ==
    \A k \in 1..Len(r.log) :
        r.log[k].type = "agent_error" =>
            LET i == r.log[k].index
                sel == SelectedOf(r)
                id == sel[i + 1]
            IN /\ r.log[k].agent = id
               /\ Len(r.log) >= k + 2
               /\ r.log[k + 1].type = "agent_done" /\ r.log[k + 1].agent = id
               /\ r.log[k + 2].type = "response" /\ r.log[k + 2].agent = id
               /\ ResponseAt(r, k + 2).AgentID = id
               /\ ResponseAt(r, k + 2).Content = <<>>
               /\ ResponseAt(r, k + 2).Error # NoErr
               /\ r.pc # "failed" =>
                    /\ Len(r.log) >= k + 4
                    /\ r.log[k + 3].type = "cache" /\ r.log[k + 3].index = i
                    /\ r.log[k + 4].type = "meeting_interrupted"
                    /\ r.log[k + 4].agent = id
                    /\ r.log[k + 4].content = SubSeq(sel, i + 2, Len(sel))
               /\ \A j \in (k + 1)..Len(r.log) :
                    ~(r.log[j].index >= 0
                      /\ r.log[j].type \in {"agent_start", "skipped", "agent_error"})

\* the step of caller c emits meeting_interrupted only with the state cached
InterruptedWhenCached(c) ==
    LET r == calls[c]
        r2 == calls'[c]
        n == Len(r2.log)
    IN (n > Len(r.log) /\ r2.log[n].type = "meeting_interrupted") =>
            /\ r2.stockCode \in DOMAIN meetingStates'
            /\ meetingStates'[r2.stockCode].FailedIndex = r2.log[n].index
            /\ meetingStates'[r2.stockCode].SelectedAgents = SelectedOf(r2)

\* C1: when the expert at index i fails after its retries in a meeting with
\* a non-empty StockCode, the call emits agent_error then agent_done for that
\* expert, appends a response with empty content and an error, caches a
\* MeetingState with FailedIndex = i, and only then emits meeting_interrupted
\* whose content is the ids of selected[i+1..]; it runs no expert after i.
C1FailureSequence ==
    [][\A c \in Callers :
        /\ (calls'[c].kind = "continue"
            \/ (calls'[c].kind = "run" /\ calls'[c].stockCode # ""))
                => FailureSequence(calls'[c])
        /\ InterruptedWhenCached(c)]_vars

\* a meeting of two experts whose first expert failed: interrupted, cached
C1Witness ==
    \E c \in Callers :
        LET r == calls[c]
        IN /\ r.kind = "run" /\ r.pc = "postloop" /\ r.stockCode # ""
           /\ Len(r.log) > 0
           /\ r.log[Len(r.log)].type = "meeting_interrupted"
           /\ r.log[Len(r.log)].index = 0
           /\ r.log[Len(r.log)].content # <<>>
           /\ r.stockCode \in DOMAIN meetingStates
           /\ meetingStates[r.stockCode].FailedIndex = 0

\* C2: a call one of whose expert turns ended in final failure never
\* proceeds to summary (the summarizer is not invoked, no summary response is
\* appended), whatever the StockCode and whatever Cancel or Continue calls
\* run on the subject before its post-loop check.
C2NoSummaryAfterFailure ==
    \A c \in Callers :
        LET r == calls[c]
        IN HasEntry(r, "agent_error") =>
                /\ ~SummarizeStarted(r)
                /\ \A k \in 1..Len(r.responses) : r.responses[k].MsgType # "summary"

\* the state a running resume holds is in no other resume's hands and no
\* longer in the cache; a refused resume has run nothing
ConsumedOnce ==
    /\ \A c \in Callers :
        Refused(calls[c]) => calls[c].log = <<>> /\ calls[c].responses = <<>>
    /\ \A c \in Callers :
        Proceeded(calls[c]) =>
            /\ calls[c].state.sid # 0
            /\ \A s \in DOMAIN meetingStates :
                    meetingStates[s].sid # calls[c].state.sid
    /\ \A c1, c2 \in Callers :
        (c1 # c2 /\ Proceeded(calls[c1]) /\ Proceeded(calls[c2]))
            => calls[c1].state.sid # calls[c2].state.sid

\* C3: ContinueMeeting reads and deletes the cached state in one critical
\* section: a resume that finds a valid state takes it out of the cache and
\* proceeds, every other resume is refused with the no-resumable-state
\* error, and no cached state is ever held by two resumes.
C3ConsumedByOneResume ==
    [][/\ ConsumedOnce'
       /\ \A c \in Callers :
            ResumeEntry(c) =>
                LET s == calls'[c].stockCode
                IN IF s \in DOMAIN meetingStates
                      /\ now - meetingStates[s].CreatedAt <= MeetingStateTTL
                   THEN /\ Proceeded(calls'[c])
                        /\ calls'[c].state = meetingStates[s]
                        /\ s \notin DOMAIN meetingStates'
                   ELSE Refused(calls'[c])]_vars

\* two resumes of one subject against the only state ever cached: one is
\* running, the other was refused
C3Witness ==
    /\ cacheWrites = 1
    /\ \E c1, c2 \in Callers :
        /\ c1 # c2
        /\ calls[c1].stockCode = calls[c2].stockCode
        /\ Proceeded(calls[c1]) /\ calls[c1].pc = "attempt"
        /\ Refused(calls[c2])

\* the entry of a resume that proceeds: the loop starts at FailedIndex with
\* the cached responses and transcript, under a deadline counted from now
ResumeStart(c) ==
    (ResumeEntry(c) /\ Proceeded(calls'[c])) =>
        LET r2 == calls'[c]
        IN /\ r2.stockCode \in DOMAIN meetingStates
           /\ r2.state = meetingStates[r2.stockCode]
           /\ r2.pc = "loop"
           /\ r2.i = r2.state.FailedIndex
           /\ r2.deadline = now + MeetingTimeout
           /\ r2.responses = r2.state.Responses
           /\ r2.history = r2.state.History

\* the experts a resume has taken up, and the responses it has returned
ResumeOrder(r) ==
    Proceeded(r) =>
        LET st == r.state
            sel == st.SelectedAgents
            old == Len(st.Responses)
            taken == SelectSeq(r.log, IsExpertStart)
            handed == SelectSeq(r.log, IsResponse)
        IN /\ \A k \in 1..Len(taken) :
                /\ taken[k].index = st.FailedIndex + k - 1
                /\ taken[k].agent = sel[st.FailedIndex + k]
           /\ Len(r.responses) = old + Len(handed)
           /\ SubSeq(r.responses, 1, old) = st.Responses
           /\ \A k \in 1..Len(handed) :
                /\ r.responses[old + k].AgentID = handed[k].agent
                /\ IF handed[k].index >= 0
                   THEN r.responses[old + k].MsgType = "opinion"
                   ELSE /\ r.responses[old + k].MsgType = "summary"
                        /\ k = Len(handed)
           /\ (r.pc = "done" /\ r.err = NoErr /\ ~HasEntry(r, "agent_error"))
                => SummarizeStarted(r)

C5RecachedState ==
    [][\A c \in Callers :
        (IsContinue(c, "failed") /\ calls'[c] # calls[c]) =>
            LET r == calls[c]
                old == r.state
            IN /\ r.stockCode \in DOMAIN meetingStates'
               /\ LET new == meetingStates'[r.stockCode]
                  IN /\ new.FailedIndex = r.i
                     /\ new.FailedIndex >= old.FailedIndex
                     /\ new.SelectedAgents[new.FailedIndex + 1]
                            = r.log[Len(r.log)].agent
                     /\ new.History = r.history
                     /\ Len(new.History) >= Len(old.History)
                     /\ SubSeq(new.History, 1, Len(old.History)) = old.History
                     /\ new.Responses = r.responses
                     /\ Len(new.Responses) > Len(old.Responses)
                     /\ SubSeq(new.Responses, 1, Len(old.Responses)) = old.Responses
                     /\ new.Responses[Len(new.Responses)].Error # NoErr
                     /\ new.SelectedAgents = old.SelectedAgents
                     /\ new.MemoryContext = old.MemoryContext
                     /\ new.CreatedAt = now
                     /\ new.sid # old.sid]_vars

\* a resume from index 0 whose first expert spoke and whose second failed
C5Witness ==
    \E c \in Callers :
        LET r == calls[c]
        IN /\ IsContinue(c, "postloop")
           /\ r.state.FailedIndex = 0
           /\ r.state.MemoryContext = "memory"
           /\ r.stockCode \in DOMAIN meetingStates
           /\ meetingStates[r.stockCode].FailedIndex = 1
           /\ Len(meetingStates[r.stockCode].History) = Len(r.state.History) + 1

\* C6: a subject never has two live meetings: no RunSmartMeetingWithCallback
\* is under way for a subject while an interrupted meeting of that subject is
\* cached.
C6NoTwoLiveMeetings ==
    \A c \in Callers :
        LET r == calls[c]
        IN (r.kind = "run"
            /\ r.pc \in {"planning", "loop", "attempt", "backoff", "failed"})
                => ~HasInterruptedMeeting(r.stockCode)

\* HasInterruptedMeeting answers by the age of the cached state
QueryHonorsTTL ==
    \A s \in DOMAIN meetingStates :
        HasInterruptedMeeting(s)
            = (now - meetingStates[s].CreatedAt <= MeetingStateTTL)

\* C7: for a cached state older than MeetingStateTTL HasInterruptedMeeting
\* returns false and ContinueMeeting fails with the no-resumable-state error,
\* no expert taken up and no event emitted; for a state of age at most
\* MeetingStateTTL HasInterruptedMeeting returns true and ContinueMeeting
\* proceeds.
C7HonorsTTL ==
    [][/\ QueryHonorsTTL'
       /\ \A c \in Callers :
            (ResumeEntry(c) /\ calls'[c].stockCode \in DOMAIN meetingStates) =>
                LET r2 == calls'[c]
                    st == meetingStates[r2.stockCode]
                IN IF now - st.CreatedAt > MeetingStateTTL
                   THEN /\ r2.pc = "done" /\ r2.err = ErrNoState
                        /\ r2.log = <<>> /\ r2.responses = <<>>
                   ELSE /\ r2.pc = "loop" /\ r2.err = NoErr
                        /\ r2.state = st]_vars

\* a resume refused although a state was found: the state was too old
C7Witness ==
    \E c \in Callers :
        /\ Refused(calls[c])
        /\ calls[c].state.sid # 0
        /\ now - calls[c].state.CreatedAt > MeetingStateTTL

\* every selected expert has an opinion without error among the responses
AllSucceeded(r) ==
    /\ SelectedOf(r) # <<>>
    /\ ~HasEntry(r, "agent_error")
    /\ \A k \in 1..Len(SelectedOf(r)) :
            \E j \in 1..Len(r.responses) :
                /\ r.responses[j].AgentID = SelectedOf(r)[k]
                /\ r.responses[j].MsgType = "opinion"
                /\ r.responses[j].Error = NoErr

\* C8: expired entries are invisible to the post-loop check: a call in
\* which every expert succeeded goes on to summarization unless a state of
\* age at most MeetingStateTTL is cached for its subject.
C8ExpiredInvisible ==
    [][\A c \in Callers :
        (/\ calls[c].pc = "postloop"
         /\ calls'[c] # calls[c]
         /\ AllSucceeded(calls[c])
         /\ ~HasInterruptedMeeting(calls[c].stockCode))
            => calls'[c].pc = "summarizing"]_vars

\* deleting the entry of s: s is gone, the other entries are as they were,
\* deleting again changes nothing
DeleteOnlySubject ==
    \A s \in Subjects :
        LET m == CancelDelete(meetingStates, s)
        IN /\ DOMAIN m = (DOMAIN meetingStates) \ {s}
           /\ \A t \in DOMAIN m : m[t] = meetingStates[t]
           /\ CancelDelete(m, s) = m

\* C9: CancelInterruptedMeeting(s) removes the entry of s only and produces
\* no response or event; a second call finds nothing and changes nothing;
\* ContinueMeeting(s) with no entry for s fails with the no-resumable-state
\* error.
C9CancelSilentIdempotent ==
    [][/\ DeleteOnlySubject'
       /\ (started' = started /\ \E s \in DOMAIN meetingStates :
                                    s \notin DOMAIN meetingStates') =>
            /\ calls' = calls /\ now' = now
            /\ \E s \in DOMAIN meetingStates :
                /\ DOMAIN meetingStates' = (DOMAIN meetingStates) \ {s}
                /\ \A t \in DOMAIN meetingStates' :
                        meetingStates'[t] = meetingStates[t]
       /\ \A c \in Callers :
            (ResumeEntry(c) /\ calls'[c].stockCode \notin DOMAIN meetingStates) =>
                /\ Refused(calls'[c])
                /\ calls'[c].log = <<>> /\ calls'[c].responses = <<>>
                /\ meetingStates' = meetingStates]_vars

\* two subjects interrupted, the first cancelled, its resume refused for
\* want of a state while the second is still cached
C9Witness ==
    /\ cacheWrites = 2
    /\ DOMAIN meetingStates = {"s2"}
    /\ \E c \in Callers :
        /\ Refused(calls[c])
        /\ calls[c].stockCode = "s1"
        /\ calls[c].state = NoState

\* C10: when the meeting deadline has passed while an expert turn is in its
\* retry backoff, the call returns ErrMeetingTimeout with the responses it
\* has so far: no error response is appended and no MeetingState is cached.
C10TimeoutNotAFailure ==
    [][\A c \in Callers :
        (/\ calls[c].pc = "backoff"
         /\ CtxDone(calls[c])
         /\ calls'[c] # calls[c])
            => /\ calls'[c].pc = "done"
               /\ calls'[c].err = ErrMeetingTimeout
               /\ calls'[c].responses = calls[c].responses
               /\ meetingStates' = meetingStates]_vars

----------------------------------------------------------------------------
(* The retry wrapper *)

\* C11: a turn that exceeds its own deadline while the meeting deadline has
\* time left is retried: with retries left, the turn does not end in failure
\* on a deadline error, and the meeting is not interrupted by it.
C11TurnTimeoutRetried ==
    [][\A c \in Callers :
        (/\ calls[c].pc = "attempt"
         /\ ~CtxDone(calls[c])
         /\ calls[c].attempt < MaxAgentRetries
         /\ calls'[c].pc = "failed")
            => ~ErrorsIs(calls'[c].failErr, DeadlineExceeded)]_vars

\* C12: under retryRun the turn function is invoked at most 3 times; the
\* wait before the first retry is 2 s and before the second 4 s, 6 s in all
\* at most; the third invocation ends the turn, with an error if it fails.
C12RetryBounds ==
    [][\A c \in Callers :
        LET r == calls[c]
            r2 == calls'[c]
        IN /\ r2.attempt \in {0, 1, 2}
           /\ r2.waited <= 6
           /\ r2.pc = "attempt" =>
                r2.waited = (IF r2.attempt = 0 THEN 0
                             ELSE IF r2.attempt = 1 THEN 2 ELSE 6)
           /\ r2.pc = "backoff" =>
                /\ r2.attempt \in {0, 1}
                /\ r2.delay = (IF r2.attempt = 0 THEN 2 ELSE 4)
           /\ (r.pc = "attempt" /\ r.attempt = 2 /\ r2 # r) =>
                \/ r2.pc = "loop" /\ r2.i = r.i + 1
                \/ r2.pc = "failed" /\ r2.failErr # NoErr]_vars

\* the third invocation of a turn, after waits of 2 s and 4 s
C12Witness ==
    \E c \in Callers :
        /\ calls[c].pc = "attempt"
        /\ calls[c].attempt = 2
        /\ calls[c].waited = 6

\* neither a cancellation nor a deadline, no "config" and no "not found" in
\* the message
Transient(err) ==
    /\ err # NoErr
    /\ \A k \in 1..Len(err) :
        err[k] \notin {"context canceled", "context deadline exceeded",
                       "invalid config", "model not found"}

\* C13: retryRun waits and invokes the turn function again exactly for the
\* errors that are neither cancellation nor deadline-exceeded and whose
\* message holds neither "config" nor "not found" (while retries are left
\* and the parent context is live); any other error, at the first attempt
\* or at a retry, ends the turn at once with that very error.
C13RetryableErrors ==
    [][\A c \in Callers :
        LET r == calls[c]
            r2 == calls'[c]
        IN /\ (r.pc = "attempt" /\ r2.pc = "backoff") =>
                /\ Transient(r2.lastErr)
                /\ r.attempt < MaxAgentRetries
                /\ r2.attempt = r.attempt
           /\ (r.pc = "attempt" /\ r2.pc = "failed") =>
                IF Transient(r2.failErr)
                THEN /\ r.attempt = MaxAgentRetries
                     /\ Head(r2.failErr) = "retries exhausted"
                     /\ Transient(Tail(r2.failErr))
                ELSE r2.log[Len(r2.log) - 2].detail = r2.failErr
           /\ (r.pc = "backoff" /\ ~CtxDone(r) /\ r2 # r) =>
                /\ r2.pc = "attempt"
                /\ r2.attempt = r.attempt + 1]_vars

\* a turn ended by a deadline error wrapped in another error
C13Witness ==
    \E c \in Callers :
        /\ calls[c].pc = "failed"
        /\ calls[c].failErr = ErrCreateSession \o DeadlineExceeded
        /\ ~Transient(calls[c].failErr)

----------------------------------------------------------------------------
(* The moderator's calls *)

\* C14: each call of the moderator, the plan and the summary, runs under the
\* retry wrapper of the expert turns: a retryable error ends the call only
\* once MaxAgentRetries retries have been made.
C14ModeratorCallsRetried ==
    [][\A c \in Callers :
        LET r == calls[c]
            r2 == calls'[c]
        IN /\ (r.pc = "planning" /\ r2.pc = "done"
                    /\ ErrorsIs(r2.err, ErrNetwork)) =>
                r.attempt = MaxAgentRetries
           /\ (r.pc = "summarizing" /\ r2.pc = "done"
                    /\ ErrorsIs(r2.summaryErr, ErrNetwork)) =>
                r.attempt = MaxAgentRetries]_vars

\* C15: a failure of the summary is never fatal: the call returns the
\* responses accumulated so far with no error and no summary entry, the
\* moderator's agent_start and agent_done have both been emitted, and no
\* memory round is written.
C15SummaryFailureNotFatal ==
    [][\A c \in Callers :
        LET r == calls[c]
            r2 == calls'[c]
        IN (r.pc = "summarizing" /\ r2.summaryErr # NoErr) =>
            /\ r2.pc = "done"
            /\ r2.err = NoErr
            /\ r2.responses = r.responses
            /\ \A k \in 1..Len(r2.responses) :
                    r2.responses[k].MsgType # "summary"
            /\ r.log[Len(r.log)] =
                    ProgressEvent("agent_start", "moderator", -1,
                                  <<"summarize">>, <<>>)
            /\ r2.log = Append(r.log,
                    ProgressEvent("agent_done", "moderator", -1, NoErr, <<>>))
            /\ ~r2.savedMemory]_vars

\* a meeting with a stock memory whose experts all answered and whose
\* summary failed
C15Witness ==
    \E c \in Callers :
        /\ calls[c].pc = "done"
        /\ calls[c].summaryErr # NoErr
        /\ calls[c].stockMemory
        /\ AllSucceeded(calls[c])
        /\ Len(calls[c].responses) = 1 + Len(calls[c].selectedAgents)

\* C16: when planning fails (an error of the model, the moderator's
\* deadline, a response with no decodable JSON, an empty list of selected
\* experts) the call returns an error and no responses: no opening, no
\* expert turn, no cached state, and the moderator's agent_start and
\* agent_done as the only events.
C16PlanFailure ==
    [][\A c \in Callers :
        LET r == calls[c]
            r2 == calls'[c]
        IN (r.pc = "planning" /\ r2 # r /\ r2.decision = <<>>) =>
            /\ r2.pc = "done"
            /\ r2.err # NoErr
            /\ r2.responses = <<>>
            /\ r2.history = <<>>
            /\ r2.log = <<ProgressEvent("agent_start", "moderator", -1,
                                        <<"analyze">>, <<>>),
                          ProgressEvent("agent_done", "moderator", -1,
                                        NoErr, <<>>)>>
            /\ meetingStates' = meetingStates]_vars

\* the planner answered with JSON that selects nobody
C16Witness ==
    \E c \in Callers :
        /\ calls[c].pc = "done"
        /\ calls[c].kind = "run"
        /\ ErrorsIs(calls[c].err, ErrNoneSelected)
        /\ calls[c].responses = <<>>
        /\ Len(calls[c].log) = 2

----------------------------------------------------------------------------
(* The planner's selection *)

InThePool(id) == \E k \in 1..Len(AllAgents) : AllAgents[k] = id
IsOpinion(resp) == resp.MsgType = "opinion"
AgentsOf(entries) == [k \in 1..Len(entries) |-> entries[k].agent]
AgentIDsOf(entries) == [k \in 1..Len(entries) |-> entries[k].AgentID]
IsPrefix(s, t) == Len(s) <= Len(t) /\ s = SubSeq(t, 1, Len(s))

\* the experts of the call are the selected ids that are in the pool, in the
\* order of the selection; they are started in that order, and the
\* transcript and the opinions follow it
SelectionPreserved(r) ==
    LET expected == SelectSeq(r.decision, InThePool)
    IN /\ r.selectedAgents = expected
       /\ IsPrefix(AgentsOf(SelectSeq(r.log, IsExpertStart)), expected)
       /\ IsPrefix(AgentIDsOf(SelectSeq(r.responses, IsOpinion)), expected)
       /\ \E k \in 0..Len(expected) :
            AgentIDsOf(r.history) = SubSeq(expected, 1, k)

\* nothing of the call names the id
NoTraceOf(r, id) ==
    /\ \A k \in 1..Len(r.log) : r.log[k].agent # id
    /\ \A k \in 1..Len(r.responses) : r.responses[k].AgentID # id
    /\ \A k \in 1..Len(r.history) : r.history[k].AgentID # id
    /\ \A k \in 1..Len(SelectedOf(r)) : SelectedOf(r)[k] # id

\* C18: the experts are run, and their transcript entries appended, in the
\* order of the planner's selected ids restricted to the pool; an id that is
\* not in the pool never produces a turn, an event or a response.
C18SelectionPreserved ==
    \A c \in Callers :
        /\ (calls[c].kind = "run" /\ calls[c].decision # <<>>) =>
                SelectionPreserved(calls[c])
        /\ NoTraceOf(calls[c], UnknownID)
        /\ \A s \in DOMAIN meetingStates :
                \A k \in 1..Len(meetingStates[s].SelectedAgents) :
                    meetingStates[s].SelectedAgents[k] # UnknownID

\* selected = [bull, nobody, bear]: the transcript is bull, bear
C18Witness ==
    \E c \in Callers :
        /\ calls[c].pc = "done"
        /\ calls[c].decision = <<"bull", UnknownID, "bear">>
        /\ AgentIDsOf(calls[c].history) = <<"bull", "bear">>

----------------------------------------------------------------------------
(* The events of a turn *)

RECURSIVE Flatten(_)
Flatten(texts) ==
    IF texts = <<>> THEN <<>> ELSE Head(texts) \o Flatten(Tail(texts))

\* the text streamed by this call for the expert at index i
Streamed(r, i) ==
    LET OfTurn(e) == e.type = "streaming" /\ e.index = i
        es == SelectSeq(r.log, OfTurn)
    IN Flatten([k \in 1..Len(es) |-> es[k].content])

\* the index in the selected list of the k-th response of the call (the
\* opening comes first, a resume starts at the failed index)
TurnOf(r, k) ==
    IF r.kind = "continue"
    THEN r.state.FailedIndex + (k - Len(r.state.Responses)) - 1
    ELSE k - 2

\* C19: for every successful expert turn the concatenation of the contents
\* of the streaming events of the turn is, once the vendor markers are
\* filtered, the final visible text of the turn, also when an earlier
\* attempt of the turn streamed deltas before failing.
C19StreamComplete ==
    \A c \in Callers :
        LET r == calls[c]
        IN \A k \in 1..Len(r.responses) :
            (/\ r.responses[k].MsgType = "opinion"
             /\ r.responses[k].Error = NoErr
             /\ k > Len(r.state.Responses)) =>
                FilterVendorToolCallMarkers(Streamed(r, TurnOf(r, k)))
                    = r.responses[k].Content

\* the progress events among the entries of the log
IsProgress(e) ==
    e.type \in {"agent_start", "agent_done", "agent_error", "tool_call",
                "tool_result", "streaming", "meeting_interrupted"}

Interleaved == <<"interleaved">>

\* The turn that is open after the events es, when the turn open before
\* them is open (<< >> for none): agent_start opens a turn when none is
\* open, agent_done closes the open turn of the same agent, the other events
\* of an agent belong to its open turn, meeting_interrupted comes between
\* turns.  Interleaved when an event breaks this.
RECURSIVE OpenAfter(_, _)
OpenAfter(es, open) ==
    IF es = <<>> \/ open = Interleaved THEN open
    ELSE LET e == Head(es)
             turn == <<e.agent, e.index>>
         IN IF e.type = "agent_start"
            THEN OpenAfter(Tail(es), IF open = <<>> THEN turn ELSE Interleaved)
            ELSE IF e.type = "agent_done"
            THEN OpenAfter(Tail(es), IF open = turn THEN <<>> ELSE Interleaved)
            ELSE IF e.type = "meeting_interrupted"
            THEN OpenAfter(Tail(es), IF open = <<>> THEN <<>> ELSE Interleaved)
            ELSE OpenAfter(Tail(es), IF open = turn THEN open ELSE Interleaved)

CountOf(r, type, experts) ==
    Cardinality({k \in 1..Len(r.log) :
        r.log[k].type = type /\ ((r.log[k].index >= 0) = experts)})

\* the plan, every expert and the summary of a first run succeeded
FullSuccess(r) ==
    /\ r.kind = "run"
    /\ r.pc = "done"
    /\ r.err = NoErr
    /\ r.summaryErr = NoErr
    /\ AllSucceeded(r)
    /\ SummarizeStarted(r)

\* C20: the events of different turns never interleave: every agent_start
\* is followed by one agent_done of the same agent before the next turn's
\* first event; tool_call, tool_result, streaming and agent_error lie
\* between the agent_start and the agent_done of their turn; a meeting with
\* N successful experts, a successful plan and a successful summary has N
\* agent_start/agent_done pairs of experts and 2 of the moderator.
C20TurnsDoNotInterleave ==
    \A c \in Callers :
        LET r == calls[c]
            open == OpenAfter(SelectSeq(r.log, IsProgress), <<>>)
        IN /\ open # Interleaved
           /\ open # <<>> =>
                r.pc \in {"planning", "attempt", "backoff", "summarizing"}
           /\ FullSuccess(r) =>
                /\ CountOf(r, "agent_start", TRUE) = Len(r.selectedAgents)
                /\ CountOf(r, "agent_done", TRUE) = Len(r.selectedAgents)
                /\ CountOf(r, "agent_start", FALSE) = 2
                /\ CountOf(r, "agent_done", FALSE) = 2

\* two experts answered, one of them after a tool call, and the summary
\* was made
C20Witness ==
    \E c \in Callers :
        /\ FullSuccess(calls[c])
        /\ Len(calls[c].selectedAgents) = 2
        /\ HasEntry(calls[c], "tool_call")
        /\ HasEntry(calls[c], "streaming")
        /\ calls[c].responses[Len(calls[c].responses)].MsgType = "summary"

----------------------------------------------------------------------------
(* The response list *)

\* the opening with round 0, then opinions with round 1, then at most one
\* summary with round 2, as the last element
WellShaped(R) ==
    /\ R[1].MsgType = "opening" /\ R[1].Round = 0
    /\ \A k \in 2..Len(R) :
        \/ R[k].MsgType = "opinion" /\ R[k].Round = 1
        \/ R[k].MsgType = "summary" /\ R[k].Round = 2 /\ k = Len(R)

\* C17: every non-empty response list returned by
\* RunSmartMeetingWithCallback or ContinueMeeting is the opening (round 0),
\* then opinions (round 1), then at most one summary (round 2) as the last
\* element, after any sequence of interruptions and resumes.
C17ResponseListShape ==
    \A c \in Callers :
        (calls[c].pc = "done" /\ calls[c].responses # <<>>) =>
            WellShaped(calls[c].responses)

----------------------------------------------------------------------------
(* Errors of a turn and the responses *)

\* the agent_error events of this call for the expert at index i
ErrorsOfTurn(r, i) ==
    {k \in 1..Len(r.log) : r.log[k].type = "agent_error" /\ r.log[k].index = i}

\* C21: agent_error is emitted for an expert turn exactly when the turn
\* ultimately fails (the retry wrapper returns an error); a failed attempt
\* followed by a successful retry leaves no agent_error, and the response is
\* the one a first successful attempt gives.
C21ErrorEventIffTurnFails ==
    \A c \in Callers :
        LET r == calls[c]
        IN /\ \A k \in 1..Len(r.responses) :
                (r.responses[k].MsgType = "opinion"
                    /\ k > Len(r.state.Responses)) =>
                    LET i == TurnOf(r, k)
                        resp == r.responses[k]
                    IN IF resp.Error = NoErr
                       THEN /\ ErrorsOfTurn(r, i) = {}
                            /\ resp = ChatResponse(SelectedOf(r)[i + 1],
                                        resp.Content, 1, "opinion", NoErr)
                            /\ resp.Content \in {<<"a">>, <<"a", "b">>}
                       ELSE /\ Cardinality(ErrorsOfTurn(r, i)) = 1
                            /\ \A j \in ErrorsOfTurn(r, i) :
                                    r.log[j].detail = resp.Error
           /\ \A j \in 1..Len(r.log) :
                r.log[j].type = "agent_error" =>
                    \E k \in 1..Len(r.responses) :
                        /\ k > Len(r.state.Responses)
                        /\ TurnOf(r, k) = r.log[j].index
                        /\ r.responses[k].Error # NoErr

\* an opinion given at the second attempt: the deltas of two attempts were
\* streamed and no agent_error was emitted
C21Witness ==
    \E c \in Callers :
        LET r == calls[c]
        IN /\ Len(r.responses) >= 2
           /\ r.kind = "run"
           /\ r.responses[2].Error = NoErr
           /\ Cardinality({k \in 1..Len(r.log) :
                    r.log[k].type = "tool_call" /\ r.log[k].index = 0}) = 2
           /\ ErrorsOfTurn(r, 0) = {}

\* agent, content and error of each response of a list
Collected(R) ==
    [k \in 1..Len(R) |-> <<R[k].AgentID, R[k].Content, R[k].Error>>]

\* agent, content and error of the responses respCallback received, in order
HandedOver(r) ==
    LET es == SelectSeq(r.log, IsResponse)
    IN [k \in 1..Len(es) |-> <<es[k].agent, es[k].content, es[k].detail>>]

\* C22: no collected response is ever lost: the list a call returns is, in
\* content and order, the sequence of responses passed to respCallback,
\* preceded for ContinueMeeting by the cached responses it resumed from.
C22NoResponseLost ==
    [][\A c \in Callers :
        LET r2 == calls'[c]
        IN (calls[c].pc # "done" /\ r2.pc = "done" /\ ~Refused(r2)) =>
            Collected(r2.responses)
                = Collected(r2.state.Responses) \o HandedOver(r2)]_vars

----------------------------------------------------------------------------
(* The memory store *)

\* C23: the memory round is handed to the background writer only after a
\* non-empty summary was produced, and never by a call whose meeting was
\* interrupted, timed out, or whose summary failed.
C23MemoryOnlyAfterSummary ==
    \A c \in Callers :
        LET r == calls[c]
        IN r.savedMemory =>
            /\ r.pc = "done"
            /\ r.err = NoErr
            /\ r.summaryErr = NoErr
            /\ r.responses[Len(r.responses)].MsgType = "summary"
            /\ r.responses[Len(r.responses)].Content # <<>>
            /\ ~HasEntry(r, "meeting_interrupted")

----------------------------------------------------------------------------
(* Configuration errors *)

\* C26: with no AI config RunSmartMeetingWithCallback returns ErrNoAIConfig
\* and with an empty pool ErrNoAgents, with no responses, no progress
\* events, no call of the moderator and no change of the interrupt cache.
C26ConfigErrorsFatal ==
    [][\A c \in Callers :
        LET r2 == calls'[c]
        IN (calls[c].pc = "idle" /\ r2.kind = "run"
                /\ r2.err \in {ErrNoAIConfig, ErrNoAgents}) =>
            /\ r2.pc = "done"
            /\ r2.responses = <<>>
            /\ r2.log = <<>>
            /\ r2.decision = <<>>
            /\ r2.history = <<>>
            /\ meetingStates' = meetingStates
            /\ cacheWrites' = cacheWrites]_vars

\* a call with an empty pool returned while a state of the subject is cached
C26Witness ==
    \E c \in Callers :
        /\ calls[c].kind = "run"
        /\ calls[c].pc = "done"
        /\ calls[c].err = ErrNoAgents
        /\ calls[c].stockCode \in DOMAIN meetingStates
\* C24: SendMessage returns only after every expert goroutine has finished,
\* and the list it returns holds exactly one response per requested expert,
\* each of the direct mode and carrying a content or a non-empty error; no
\* opening or summary is among them and the interrupt cache is not written.
C24DirectBarrier ==
    [][\A c \in Callers :
        LET r == calls[c]
            r2 == calls'[c]
        IN (r.kind = "direct" /\ r.pc = "parallel" /\ r2.pc = "done") =>
            /\ Joined(r)
            /\ r2.err = NoErr
            /\ Len(r2.responses) = Len(r2.selectedAgents)
            /\ \A k \in 1..Len(r2.selectedAgents) :
                 Cardinality({j \in 1..Len(r2.responses) :
                    r2.responses[j].AgentID = r2.selectedAgents[k]}) = 1
            /\ \A j \in 1..Len(r2.responses) :
                 /\ r2.responses[j].Content # <<>> \/ r2.responses[j].Error # NoErr
                 /\ r2.responses[j].MeetingMode = "direct"
                 /\ r2.responses[j].MsgType \notin {"opening", "summary"}
            /\ meetingStates' = meetingStates
            /\ cacheWrites' = cacheWrites]_vars

\* C25: every response an operation produces (smart meeting, direct
\* request, single-expert retry, resume) has a message type among opening,
\* opinion and summary, and a mode tag among smart and direct.  The zero
\* value that RetrySingleAgent returns next to a model factory error is not
\* counted as a response.
C25MessageTypes ==
    \A c \in Callers :
        \A k \in 1..Len(calls[c].responses) :
            LET resp == calls[c].responses[k]
            IN (resp # ZeroResponse \/ calls[c].err = NoErr) =>
                /\ resp.MsgType \in {"opening", "opinion", "summary"}
                /\ resp.MeetingMode \in {"smart", "direct"}

----------------------------------------------------------------------------
(* The provider layer *)

IsPartial(el) == el.Partial /\ ~el.TurnComplete /\ el.err = NoErr
IsFinal(el) == ~el.Partial /\ el.TurnComplete /\ el.err = NoErr
IsError(el) == el.err # NoErr /\ el.Parts = <<>> /\ ~el.TurnComplete

\* the consumer said no to a partial response
WalkedAway(g) ==
    g.stopped /\ (g.yields = <<>> \/ IsPartial(g.yields[Len(g.yields)]))

\* the read of the stream failed (not its normal end)
ReadFailed(g) == g.end # NoErr /\ ~ErrorsIs(g.end, ErrEOF)

\* partial responses, then one element that is the final response or an
\* error, the error if the read failed
PartialsThenTerminal(g) ==
    /\ g.yields # <<>>
    /\ \A k \in 1..(Len(g.yields) - 1) : IsPartial(g.yields[k])
    /\ LET last == g.yields[Len(g.yields)]
       IN /\ IsFinal(last) \/ IsError(last)
          /\ ReadFailed(g) => IsError(last)

\* C27, with no exception: a streaming sequence that the consumer takes to its end
\* yields partial responses followed by exactly one terminal element, the
\* final response or an error, and the error when the read of the stream
\* failed; a non-streaming sequence yields exactly one element.
C27TerminalAlways ==
    /\ \A k \in 1..(Len(gen.yields) - 1) : IsPartial(gen.yields[k])
    /\ (gen.pc = "done" /\ ~WalkedAway(gen)) =>
            IF gen.streaming THEN PartialsThenTerminal(gen)
            ELSE Len(gen.yields) = 1

\* C27: a streaming sequence that the consumer takes to its end yields
\* partial responses followed by exactly one terminal element, the final
\* response or an error, and the error when the read of the stream failed;
\* except that in the chat dialect a read that failed on a cancelled
\* context ends the sequence after the partial responses, with no terminal
\* element.  A non-streaming sequence yields exactly one element.
C27StreamShape ==
    /\ \A k \in 1..(Len(gen.yields) - 1) : IsPartial(gen.yields[k])
    /\ (gen.pc = "done" /\ ~WalkedAway(gen)) =>
            IF ~gen.streaming THEN Len(gen.yields) = 1
            ELSE IF gen.dialect = "chat" /\ ErrorsIs(gen.end, Canceled)
            THEN \A k \in 1..Len(gen.yields) : IsPartial(gen.yields[k])
            ELSE PartialsThenTerminal(gen)

C27Witness ==
    /\ gen.pc = "done" /\ gen.streaming /\ gen.dialect = "chat"
    /\ gen.end = ErrNetwork
    /\ Len(gen.yields) = 3
    /\ IsPartial(gen.yields[1]) /\ IsPartial(gen.yields[2])
    /\ IsError(gen.yields[3])

\* C28: in both dialects, once the consumer's yield has returned false the
\* producer never calls yield again and reads no more of the stream.
C28ProducerStops == gen.late = 0 /\ gen.readsLate = 0

\* C29: in both dialects, when the read of the stream fails because the
\* context was cancelled, the sequence ends without an error and without a
\* final response: whatever was yielded is partial responses.
C29CancelSilent ==
    (gen.pc \in {"done", "panic"} /\ ErrorsIs(gen.end, Canceled)) =>
        /\ gen.late = 0
        /\ \A k \in 1..Len(gen.yields) : IsPartial(gen.yields[k])

\* the well-formed text deltas of the lines, in arrival order: the data of
\* each event of type response.output_text.delta that decodes
RECURSIVE LineDeltas(_, _)
LineDeltas(lines, type) ==
    IF lines = <<>> THEN <<>>
    ELSE LET l == Head(lines)
         IN IF l.kind = "event" THEN LineDeltas(Tail(lines), l.type)
            ELSE IF l.kind = "data" /\ l.data # <<>>
            THEN (IF type = "response.output_text.delta" /\ l.data[1].ok
                  THEN <<l.data[1].delta>> ELSE <<>>)
                 \o LineDeltas(Tail(lines), "")
            ELSE LineDeltas(Tail(lines), type)

\* the content deltas of the chunks, in arrival order
RECURSIVE ChunkDeltas(_)
ChunkDeltas(chunks) ==
    IF chunks = <<>> THEN <<>>
    ELSE (IF Head(chunks).choices /\ Head(chunks).content # <<>>
          THEN <<Head(chunks).content>> ELSE <<>>)
         \o ChunkDeltas(Tail(chunks))

\* the text deltas that arrived on the stream
ArrivedDeltas(g) ==
    IF g.dialect = "chat" THEN ChunkDeltas(g.seen)
    ELSE LineDeltas(Flatten(g.seen), "")

IsTextPartial(el) == IsPartial(el) /\ ~el.Parts[1].Thought
PartText(el) == el.Parts[1].Text

\* the text deltas forwarded as partial responses, in the order of the yields
ForwardedDeltas(g) ==
    LET ks == SelectSeq([k \in 1..Len(g.yields) |-> g.yields[k]], IsTextPartial)
    IN [k \in 1..Len(ks) |-> PartText(ks[k])]

IsVisibleText(part) == ~part.Thought /\ part.FunctionCall = <<>>

\* the visible text of a response
TextOf(el) ==
    LET ps == SelectSeq(el.Parts, IsVisibleText)
    IN Flatten([k \in 1..Len(ps) |-> ps[k].Text])

EndedNormally(g) ==
    g.pc = "done" /\ g.streaming /\ g.yields # <<>> /\ IsFinal(g.yields[Len(g.yields)])

\* C30: in a stream that ends normally, the text deltas forwarded as
\* partial responses are exactly the well-formed text deltas that arrived,
\* one partial response each and in arrival order (a malformed delta event
\* is not among them), and the text of the final aggregated response is
\* their concatenation without the vendor markers.
C30TextAggregation ==
    EndedNormally(gen) =>
        /\ ForwardedDeltas(gen) = ArrivedDeltas(gen)
        /\ TextOf(gen.yields[Len(gen.yields)])
                = FilterVendorToolCallMarkers(Flatten(ForwardedDeltas(gen)))

C30Witness ==
    /\ EndedNormally(gen) /\ gen.dialect = "responses"
    /\ gen.seen = <<SSE("response.output_text.delta", TextDelta(<<"a">>)),
                    SSE("response.output_text.delta", Malformed),
                    SSE("response.output_text.delta", TextDelta(<<VendorMarker>>))>>
    /\ ForwardedDeltas(gen) = <<<<"a">>, <<VendorMarker>>>>
    /\ TextOf(gen.yields[Len(gen.yields)]) = <<"a">>

\* the events of the lines, in arrival order: each data line that is not
\* empty, with the type of the event line before it
RECURSIVE LineEvents(_, _)
LineEvents(lines, type) ==
    IF lines = <<>> THEN <<>>
    ELSE LET l == Head(lines)
         IN IF l.kind = "event" THEN LineEvents(Tail(lines), l.type)
            ELSE IF l.kind = "data" /\ l.data # <<>>
            THEN <<[type |-> type, d |-> l.data[1]]>> \o LineEvents(Tail(lines), "")
            ELSE LineEvents(Tail(lines), type)

\* the response.output_item.done events of the function_call item id
DoneEvents(g, id) ==
    LET IsDone(e) == /\ e.type = "response.output_item.done" /\ e.d.ok
                     /\ e.d.item.type = "function_call" /\ e.d.item.id = id
    IN SelectSeq(LineEvents(Flatten(g.seen), ""), IsDone)

\* the payloads of the response.function_call_arguments.delta events of
\* the item id, put together in arrival order
ArgumentDeltas(g, id) ==
    LET IsArgs(e) == /\ e.type = "response.function_call_arguments.delta"
                     /\ e.d.ok /\ e.d.item_id = id
        es == SelectSeq(LineEvents(Flatten(g.seen), ""), IsArgs)
    IN Flatten([k \in 1..Len(es) |-> es[k].d.delta])

IsCallPart(part) == part.FunctionCall # <<>>

\* the function calls of a response, in the order of its parts
CallsOf(el) ==
    LET ps == SelectSeq(el.Parts, IsCallPart)
    IN [k \in 1..Len(ps) |-> ps[k].FunctionCall[1]]

ItemIDs == {"i1", "i2"}

\* C31: in the responses dialect the final message holds, for every
\* function_call item with a response.output_item.done event, exactly one
\* function call with the call id and the name of that event, whose
\* arguments are the event's arguments when it has some and else the
\* argument deltas of the item put together in arrival order, whatever the
\* order and the repetition of the item's events.
C31FunctionCallFinal ==
    (EndedNormally(gen) /\ gen.dialect = "responses") =>
        \A id \in ItemIDs :
            LET ds == DoneEvents(gen, id)
                cs == CallsOf(gen.yields[Len(gen.yields)])
            IN ds # <<>> =>
                LET item == ds[Len(ds)].d.item
                    ks == {k \in 1..Len(cs) : cs[k].ID = item.call_id}
                IN /\ Cardinality(ks) = 1
                   /\ \A k \in ks :
                        /\ cs[k].Name = item.name
                        /\ cs[k].Args = parseJSONArgs(
                              IF item.arguments # <<>> THEN item.arguments
                              ELSE ArgumentDeltas(gen, id))

\* the index slots of the tool-call deltas of the chunks, each once, in the
\* order of their first appearance
RECURSIVE SlotsInOrder(_, _)
SlotsInOrder(chunks, have) ==
    IF chunks = <<>> THEN <<>>
    ELSE LET tcs == IF Head(chunks).choices THEN Head(chunks).toolCalls ELSE <<>>
             idx == IF tcs = <<>> THEN -1
                    ELSE IF tcs[1].index < 0 THEN 0 ELSE tcs[1].index
         IN IF idx < 0 \/ idx \in have THEN SlotsInOrder(Tail(chunks), have)
            ELSE <<idx>> \o SlotsInOrder(Tail(chunks), have \cup {idx})

\* the call id that the index slot idx carries: c1 in slot 0, c2 in slot 1
SlotCallID(idx) == IF idx = 0 THEN "c1" ELSE "c2"

\* C32: in the chat dialect the function calls of the final message come
\* in the order in which their index slots first appeared in the stream.
C32InsertionOrder ==
    (EndedNormally(gen) /\ gen.dialect = "chat") =>
        LET cs == CallsOf(gen.yields[Len(gen.yields)])
            native == SelectSeq(cs, LAMBDA c : c.Name # "vendor")
            slots == SlotsInOrder(gen.seen, {})
        IN /\ Len(native) = Len(slots)
           /\ \A k \in 1..Len(slots) :
                native[k].ID \in {"", SlotCallID(slots[k])}

----------------------------------------------------------------------------
(* The planner's parser *)

\* C33: parseDecision applied to the JSON serialization of a decision that
\* selects somebody returns that decision and no error; whenever the
\* decoded decision selects nobody, it returns an error and no decision.
C33RoundTrip ==
    parse.pc = "done" =>
        /\ (parse.d # <<>> /\ parse.pre = <<>> /\ parse.post = <<>>
                /\ parse.d[1].Selected # <<>>) =>
              parse.err = NoErr /\ parse.decision = parse.d
        /\ (parse.d # <<>> /\ parse.d[1].Selected = <<>>) =>
              parse.err # NoErr /\ parse.decision = <<>>
        /\ parse.decision # <<>> => parse.decision[1].Selected # <<>>

C33Witness ==
    /\ parse.pc = "done" /\ parse.pre = <<>> /\ parse.post = <<>>
    /\ parse.d = <<ModeratorDecision(<<"bull", "bear">>, <<"x", "\"", "}">>)>>
    /\ parse.content = <<"{", "selected:[bull,bear]", "\"", "x", "\\", "\"", "}", "\"", "}">>
    /\ parse.err = NoErr /\ parse.decision = parse.d

\* the object stands in the text in one of the forms the extraction knows
Embedded(p) ==
    /\ p.pc = "done" /\ p.d # <<>> /\ p.d[1].Selected # <<>>
    /\ <<p.pre, p.post>> \in Surroundings

\* C34: every text that embeds one valid decision object, alone, in a json
\* fence, in a plain fence, between other text, or followed by text that
\* ends with a closing brace, is parsed into that decision.
C34FallThrough ==
    Embedded(parse) => parse.err = NoErr /\ parse.decision = parse.d

\* the place of a part in the final message: the thought, the visible
\* text, a call lifted from a vendor marker, a call streamed natively
PartRank(part) ==
    IF part.Thought THEN 0
    ELSE IF part.FunctionCall = <<>> THEN 1
    ELSE IF part.FunctionCall[1].Name = "vendor" THEN 2 ELSE 3

IsVendorCall(part) == PartRank(part) = 2

\* the parts of the final message are laid out thought, text, vendor
\* calls, native calls, with one thought and one text part at most
LaidOut(parts) ==
    /\ \A j, k \in 1..Len(parts) :
            j < k => /\ PartRank(parts[j]) <= PartRank(parts[k])
                     /\ PartRank(parts[k]) \in {0, 1} =>
                            PartRank(parts[j]) < PartRank(parts[k])
    /\ LET vs == SelectSeq(parts, IsVendorCall)
       IN \A k \in 1..Len(vs) : vs[k].FunctionCall[1].ID = <<"vendor_call", k - 1>>

\* C38: a partial response holds one text or thought delta and never a
\* function call; the calls lifted from vendor markers appear in the final
\* message only, numbered vendor_call_0 .. vendor_call_(n-1), as many as
\* the accumulated text has markers; the final message is laid out as the
\* thought part (chat dialect, when there was reasoning), the cleaned
\* text, the lifted calls and the natively streamed calls.
C38FinalLayout ==
    /\ \A k \in 1..Len(gen.yields) :
          IsPartial(gen.yields[k]) =>
              /\ Len(gen.yields[k].Parts) = 1
              /\ ~IsCallPart(gen.yields[k].Parts[1])
    /\ EndedNormally(gen) =>
          LET parts == gen.yields[Len(gen.yields)].Parts
              text == Flatten(ForwardedDeltas(gen))
          IN /\ LaidOut(parts)
             /\ Len(SelectSeq(parts, IsVendorCall))
                    = Len(SelectSeq(text, IsVendorMarker))
             /\ \A k \in 1..Len(parts) :
                    /\ PartRank(parts[k]) = 1 =>
                          parts[k].Text = FilterVendorToolCallMarkers(text)
                    /\ PartRank(parts[k]) = 0 =>
                          gen.dialect = "chat" /\ k = 1
             /\ (gen.dialect = "chat" /\ gen.reasoningContent # <<>>) =>
                    parts # <<>> /\ PartRank(parts[1]) = 0

C38Witness ==
    /\ EndedNormally(gen) /\ gen.dialect = "chat"
    /\ Len(gen.yields) = 3
    /\ IsPartial(gen.yields[1]) /\ gen.yields[1].Parts[1].Thought
    /\ IsTextPartial(gen.yields[2])
    /\ Len(gen.yields[3].Parts) = 4
    /\ \A k \in 1..4 : PartRank(gen.yields[3].Parts[k]) = k - 1

----------------------------------------------------------------------------
(* The wait between two invocations of a turn *)

\* C35: when the context of the meeting is done while retryRun waits
\* before a retry, retryRun returns the error of the context: the turn
\* ends as failed with that error, the turn function is not invoked again
\* and the delay is not counted as waited through.
C35BackoffCancellable ==
    [][\A c \in Callers :
        (calls[c].pc = "backoff" /\ CtxDone(calls[c]) /\ calls'[c] # calls[c]) =>
            /\ calls'[c].pc = "failed"
            /\ calls'[c].failErr = DeadlineExceeded
            /\ calls'[c].i = calls[c].i
            /\ calls'[c].waited = 0
            /\ LET resp == calls'[c].responses[Len(calls'[c].responses)]
               IN resp.Error = DeadlineExceeded]_vars

\* the deadline of the meeting passed while retryRun waits after a
\* transient error
C35Witness ==
    \E c \in Callers :
        /\ calls[c].pc = "backoff"
        /\ CtxDone(calls[c])
        /\ calls[c].lastErr = ErrNetwork
        /\ calls[c].delay = RetryDelay(calls[c].attempt + 1)

----------------------------------------------------------------------------
(* The manual retry of one expert *)

EventTypes(r) == [k \in 1..Len(r.log) |-> r.log[k].type]

\* the step is one of the retry call of c
RetryStep(c) == calls'[c].kind = "retry" /\ calls'[c] # calls[c]

\* the retry of c leaves the cache of interrupted meetings as it is
CacheUntouched ==
    /\ meetingStates' = meetingStates
    /\ cacheWrites' = cacheWrites
    /\ HasInterruptedMeeting("s1")' = HasInterruptedMeeting("s1")

\* the retry of c for the expert id returned its answer
Retried(c, id) ==
    /\ calls[c].kind = "retry" /\ calls[c].pc = "done" /\ calls[c].err = NoErr
    /\ calls[c].selectedAgents = <<id>>

\* the step is a ContinueMeeting of d that found the state it resumes
Resumed(d) ==
    /\ calls[d].pc = "idle"
    /\ calls'[d].kind = "continue" /\ calls'[d].pc = "loop"

\* C40, with the failure of the model factory set apart: no step of a
\* RetrySingleAgent call creates, updates or removes a cached state or
\* changes what HasInterruptedMeeting answers; a ContinueMeeting that
\* follows a successful retry of the failed expert starts at that expert;
\* the call never emits agent_error or meeting_interrupted; once the model
\* was built its first event is agent_start and when it returns its last
\* is agent_done, one of each; when the model cannot be built it emits
\* nothing.
C40RetryLeavesCache ==
    [][\A c, d \in Callers :
        /\ RetryStep(c) =>
            /\ CacheUntouched
            /\ LET r == calls'[c]
                   ts == EventTypes(r)
                   n == Len(ts)
               IN /\ \A k \in 1..n : ts[k] \notin {"agent_error", "meeting_interrupted"}
                  /\ n > 0 => ts[1] = "agent_start"
                  /\ \A k \in 2..n : ts[k] # "agent_start"
                  /\ \A k \in 1..(n - 1) : ts[k] # "agent_done"
                  /\ r.pc = "done" =>
                        IF ErrorsIs(r.err, ErrCreateModel) THEN n = 0
                        ELSE n > 1 /\ ts[n] = "agent_done"
        /\ (Resumed(d) /\ Retried(c, meetingStates["s1"].SelectedAgents[
                                        meetingStates["s1"].FailedIndex + 1])) =>
            /\ calls'[d].i = meetingStates["s1"].FailedIndex
            /\ calls'[d].responses = meetingStates["s1"].Responses]_vars

\* a meeting was interrupted at bull, the retry of bull returned its
\* answer, and the resumed meeting runs bull again
C40Witness ==
    /\ Retried("c2", "bull")
    /\ calls["c2"].responses[1].Content # <<>>
    /\ EventTypes(calls["c2"]) = <<"agent_start", "streaming", "agent_done">>
    /\ calls["c1"].kind = "continue" /\ calls["c1"].pc = "attempt"
    /\ calls["c1"].state.SelectedAgents[calls["c1"].i + 1] = "bull"
    /\ calls["c1"].i = calls["c1"].state.FailedIndex

\* C40 as stated: every RetrySingleAgent call leaves the cache of
\* interrupted meetings unchanged, emits agent_start and then agent_done,
\* and never emits agent_error or meeting_interrupted.
C40RetryAlwaysAnnounced ==
    [][\A c \in Callers :
        RetryStep(c) =>
            /\ CacheUntouched
            /\ LET ts == EventTypes(calls'[c])
                   n == Len(ts)
               IN /\ \A k \in 1..n : ts[k] \notin {"agent_error", "meeting_interrupted"}
                  /\ calls'[c].pc = "done" =>
                        n > 1 /\ ts[1] = "agent_start" /\ ts[n] = "agent_done"]_vars

----------------------------------------------------------------------------
(* An expert whose model cannot be created *)

\* the step of c is the skip of the expert at the top of the loop
SkipStep(c) ==
    /\ calls[c].pc = "loop" /\ calls'[c].pc = "loop"
    /\ calls'[c].i = calls[c].i + 1

\* the skip leaves no trace but the advance to the next expert
SkipSilent(c) ==
    /\ calls'[c].responses = calls[c].responses
    /\ calls'[c].history = calls[c].history
    /\ meetingStates' = meetingStates /\ cacheWrites' = cacheWrites
    /\ \E id \in {"bull", "bear"} :
            calls'[c].log = Append(calls[c].log, Observed("skipped", id, calls[c].i))

\* in the call of c an expert was skipped and no expert failed
SkippedOthersFine(c) ==
    /\ \E k \in 1..Len(calls[c].log) : calls[c].log[k].type = "skipped"
    /\ \A k \in 1..Len(calls[c].log) : calls[c].log[k].type # "agent_error"

\* C36: an expert whose model cannot be created is skipped: the loop goes
\* on with the next expert, no progress event is emitted, no response and
\* no transcript entry is added and no state is cached for it; and when no
\* other expert of the call fails, the check after the loop sends the
\* meeting to its summary, in RunSmartMeetingWithCallback and in
\* ContinueMeeting alike.
C36SkippedGoesOn ==
    [][\A c \in Callers :
        /\ SkipStep(c) => SkipSilent(c)
        /\ (calls[c].pc = "postloop" /\ SkippedOthersFine(c)
                /\ calls'[c] # calls[c]) =>
            calls'[c].pc = "summarizing"]_vars

----------------------------------------------------------------------------
(* The context block of an expert *)

IsSuccessfulOpinion(resp) == resp.MsgType = "opinion" /\ resp.Error = NoErr

\* what the experts that succeeded so far said, in the order they spoke
Succeeded(r) ==
    LET rs == SelectSeq(r.responses, IsSuccessfulOpinion)
    IN [k \in 1..Len(rs) |-> <<rs[k].AgentID, rs[k].Content>>]

\* the memory context of the meeting the call runs or resumes
MemoryContextOf(r) ==
    IF r.kind = "continue" THEN r.state.MemoryContext ELSE r.memoryContext

\* the context block of the claim: the memory context, when there is one,
\* then the heading and the labelled entries, when there are some
ExpectedContext(r) ==
    (IF MemoryContextOf(r) # "" THEN <<<<MemoryContextOf(r)>>, <<"\n">>>> ELSE <<>>)
        \o (IF Succeeded(r) = <<>> THEN <<>>
            ELSE <<<<"previous speakers">>>> \o Succeeded(r))

InTurn(r) == r.kind \in {"run", "continue"} /\ r.pc \in {"attempt", "backoff"}

\* C37: the context block the expert at position i is run with is the
\* memory context of the meeting followed by the labelled entries of
\* exactly the experts that succeeded before i, in the order they spoke;
\* the memory context does not change during a call and the transcript
\* only grows at its end; a resumed call starts from the cached
\* transcript and the cached memory context.
C37ContextBlock ==
    [][\A c \in Callers :
        LET r == calls[c]
            r2 == calls'[c]
        IN /\ InTurn(r2) => r2.previousContext = ExpectedContext(r2)
           /\ (r.kind \in {"run", "continue"} /\ r2.kind = r.kind) =>
                /\ IsPrefix(r.history, r2.history)
                /\ Len(r2.history) <= Len(r.history) + 1
                /\ MemoryContextOf(r2) = MemoryContextOf(r)
           /\ (r.pc = "idle" /\ r2.kind = "continue" /\ r2.pc = "loop") =>
                /\ r2.history = meetingStates[r2.stockCode].History
                /\ r2.state.MemoryContext = meetingStates[r2.stockCode].MemoryContext]_vars

\* the resumed meeting runs its second expert after the first, which had
\* failed before the resume, has spoken
C37Witness ==
    \E c \in Callers :
        /\ calls[c].kind = "continue" /\ calls[c].pc = "attempt"
        /\ calls[c].state.FailedIndex = 0 /\ calls[c].i = 1
        /\ calls[c].previousContext
                = <<<<"memory">>, <<"\n">>, <<"previous speakers">>,
                    <<"bull", <<"text">>>>>>

----------------------------------------------------------------------------
(* The cached state of an interrupted meeting *)

\* a is b with some elements left out
RECURSIVE IsSubsequence(_, _)
IsSubsequence(a, b) ==
    IF a = <<>> THEN TRUE
    ELSE IF b = <<>> THEN FALSE
    ELSE IF Head(a) = Head(b) THEN IsSubsequence(Tail(a), Tail(b))
    ELSE IsSubsequence(a, Tail(b))

\* the transcript of st: experts before the failed one, in the selected
\* order, each with its successful opinion among the responses
HistoryBeforeFailure(st) ==
    /\ Len(st.History) <= st.FailedIndex
    /\ IsSubsequence(AgentIDsOf(st.History),
                     SubSeq(st.SelectedAgents, 1, st.FailedIndex))
    /\ \A k \in 1..Len(st.History) :
        /\ st.History[k].AgentID # st.SelectedAgents[st.FailedIndex + 1]
        /\ \E j \in 1..Len(st.Responses) :
            /\ IsSuccessfulOpinion(st.Responses[j])
            /\ st.Responses[j].AgentID = st.History[k].AgentID
            /\ st.Responses[j].Content = st.History[k].Content

\* the responses of st: the opening first, the error-bearing response of
\* the failed expert last
ResponsesToFailure(st) ==
    /\ Len(st.Responses) >= 2
    /\ st.Responses[1].MsgType = "opening"
    /\ LET last == st.Responses[Len(st.Responses)]
       IN /\ last.MsgType = "opinion" /\ last.Error # NoErr
          /\ last.AgentID = st.SelectedAgents[st.FailedIndex + 1]

\* C39: every state in the cache of interrupted meetings has
\* 0 <= FailedIndex < len(SelectedAgents), a History of experts before
\* FailedIndex that succeeded, in the selected order and without the
\* failed expert, and Responses that start with the opening and end with
\* the error-bearing response of SelectedAgents[FailedIndex].
C39CachedStateShape ==
    \A s \in DOMAIN meetingStates :
        LET st == meetingStates[s]
        IN /\ 0 <= st.FailedIndex
           /\ st.FailedIndex < Len(st.SelectedAgents)
           /\ HistoryBeforeFailure(st)
           /\ ResponsesToFailure(st)

====
